---- MODULE Spec2Model ----
(***************************************************************************)
(* temporal-flow: the document-ingestion pipeline executor                 *)
(* (DocumentProcessingWorkflow.run) and the chat session actor             *)
(* (ChatSessionWorkflow) as state machines.                                *)
(*                                                                         *)
(* Python dicts are functions from key strings to values; None is the      *)
(* string "None"; an f-string is the tuple of its parts.                   *)
(***************************************************************************)
EXTENDS Integers, Sequences, FiniteSets, TLC

None == "None"

\* dict.get(key, default)
Get(d, k, default) == IF k \in DOMAIN d THEN d[k] ELSE default

(***************************************************************************)
(* Part 1 - DocumentProcessingWorkflow                                     *)
(***************************************************************************)

VARIABLES
    input_data,         \* the request dict handed to run
    p_pc,               \* position of run: start, the stage about to be awaited, done
    validation_result,  \* locals of run, NoResult until assigned
    download_result,
    text_result,
    chunk_result,
    embedding_result,
    storage_result,
    calls,              \* every workflow.execute_activity call, in order: activity and argument
    p_exc,              \* text of the exception raised inside run's try block, None if none
    p_result            \* the value run returned, NoResult while running

pvars == <<input_data, p_pc, validation_result, download_result, text_result,
           chunk_result, embedding_result, storage_result, calls, p_exc, p_result>>

\* the state of a ChatSessionWorkflow (Part 2)
VARIABLES
    initial_state,        \* the argument of run
    state,                \* self._state, NoState until run has initialised it
    message_history,      \* self._message_history
    triggered_workflows,  \* self._triggered_workflows
    ai_processing_queue,  \* self._ai_processing_queue
    s_pc,                 \* where run is suspended: not_started, analysis, child, ack, waiting; or done
    message,              \* the message run popped and is processing, NoMessage otherwise
    child,                \* the child workflow _process_ai_message is awaiting, NoChild otherwise
    handlers,             \* trigger_workflow signal handlers suspended on the child they started
    s_result,             \* the value run returned, NoSummary while the workflow is open
    dequeued,             \* history: the messages popped from the queue, in order
    completed,            \* history: number of _process_ai_message calls that returned
    end_signalled,        \* history: an end_session signal was delivered
    ended_at,             \* history: length of the message history when is_active was set to False, -1 before
    n_messages,           \* history: receive_message signals delivered
    n_updates,            \* history: update_user signals delivered
    n_triggers            \* history: trigger_workflow signals delivered

svars == <<initial_state, state, message_history, triggered_workflows,
           ai_processing_queue, s_pc, message, child, handlers, s_result,
           dequeued, completed, end_signalled, ended_at, n_messages, n_updates,
           n_triggers>>

\* the caller of a query (Part 3)
VARIABLES
    returned              \* what the last query returned, NoReturn before the first one

qvars == <<returned>>

\* one call of the event validation or of the event routing (Part 4)
VARIABLES
    event,                \* the raw event handed to the call
    default_config,       \* the configuration the service was constructed with, None if none
    custom_config,        \* the configuration handed to the call, None if none
    r_pc,                 \* start, or the operation that has been called
    validation,           \* the EventValidationResult of validate_event
    routing_result,       \* what EventRoutingService.route_event returned or raised
    activity_result       \* what the route_event activity returned or raised

rvars == <<event, default_config, custom_config, r_pc, validation, routing_result,
           activity_result>>

\* one call of the chunk_text activity (Part 5)
VARIABLES
    chunk_input,          \* the argument: the text, chunk_size and chunk_overlap
    c_pc,                 \* start, loop (at the test of the while loop), done
    start,                \* locals of chunk_text
    chunk_index,
    chunks,
    chunk_metadata,
    chunk_output          \* the dict chunk_text returned, NoResult before

cvars == <<chunk_input, c_pc, start, chunk_index, chunks, chunk_metadata, chunk_output>>

\* one run of the RootOrchestratorWorkflow (Part 6)
VARIABLES
    root_input,           \* the argument of run: event_payload and configuration, or None
    self_event_payload,   \* self._event_payload
    self_configuration,   \* self._configuration
    event_payload,        \* the local of run, None before it is assigned
    o_pc,                 \* where run is suspended: not_started, waiting, validate_event,
                          \* route_event, child; or done
    o_calls,              \* every activity and child workflow run started, in order
    o_result,             \* the string run returned, NoReturnYet while the workflow is open
    o_signals             \* history: signals delivered

ovars == <<root_input, self_event_payload, self_configuration, event_payload, o_pc,
           o_calls, o_result, o_signals>>

\* one call of the choose_workflow activity (Part 7)
VARIABLES
    choose_params,        \* the ChooseWorkflowParams
    chosen                \* what choose_workflow returned or raised, NoResult before

kvars == <<choose_params, chosen>>

\* one call of the validate_document activity (Part 8)
VARIABLES
    document_request,     \* the DocumentProcessingInput
    document_validation   \* the dict validate_document returned, NoResult before

dvars == <<document_request, document_validation>>

\* the stages after the download, each called with the result of the one
\* before (Part 9); the chunk stage is the call of Part 5
VARIABLES
    extract_input,        \* the argument of extract_text: download_result and input_data
    g_pc,                 \* start, chunk, embed, store; idle when there is no call
    embedding_output,     \* the dict generate_embeddings returned, NoResult before
    storage_input,        \* the argument of the store_chunks calls, NoResult before the first
    storage_outputs       \* the dicts the store_chunks calls returned, in order

gvars == <<extract_input, g_pc, embedding_output, storage_input, storage_outputs>>

\* the variables of Parts 6 to 9
xvars == <<ovars, kvars, dvars, gvars>>

vars == <<pvars, svars, qvars, rvars, cvars, xvars>>

NoResult == [kind |-> "none"]

\* fields of the DocumentProcessingInput dataclass
DocumentProcessingInputFields ==
    {"document_uri", "source", "event_type", "bucket", "key", "container",
     "blob_name", "size", "content_type", "timestamp", "chunk_size",
     "chunk_overlap", "embedding_model", "index_name", "additional_context"}

\* fields of the dataclass without a default
DocumentProcessingInputRequired == {"document_uri", "source", "event_type"}

\* DocumentProcessingInput(**d) raises TypeError on an unexpected keyword and
\* on a missing required argument
ConstructorAccepts(d) ==
    /\ DOMAIN d \subseteq DocumentProcessingInputFields
    /\ DocumentProcessingInputRequired \subseteq DOMAIN d

\* the dataclass instance, restricted to the fields run reads
DocumentProcessingInput(d) ==
    [document_uri       |-> d["document_uri"],
     source             |-> d["source"],
     event_type         |-> d["event_type"],
     additional_context |-> Get(d, "additional_context", None)]

\* keys a request may carry in the model: the required ones, two optional
\* dataclass fields and one key the dataclass does not declare
RequestKeys == {"document_uri", "source", "event_type", "bucket",
                "additional_context", "user_id"}
Sources == {"chat", "s3"}
Uris == {"/uploads/user-doc.pdf", "s3://test-bucket/doc.pdf"}

RequestValue(k, uri, src) ==
    CASE k = "document_uri" -> uri
      [] k = "source" -> src
      [] k = "event_type" -> "document-uploaded"
      [] k = "bucket" -> "test-bucket"
      [] k = "additional_context" -> "ctx"
      [] k = "user_id" -> "user-123"

Requests ==
    { [k \in ks |-> RequestValue(k, uri, src)] :
        ks \in SUBSET RequestKeys, uri \in Uris, src \in Sources }

\* what one awaited activity can produce: a result dict or an exception
Returned(v) == [kind |-> "return", value |-> v]
Raised(msg) == [kind |-> "raise", msg |-> msg]
ActivityErrors == {Raised("Unexpected error")}

ValidateOutcomes ==
    {Returned([success |-> TRUE, errors |-> <<>>, document_info |-> "info"])}
    \cup {Returned([success |-> FALSE, errors |-> e, document_info |-> "none"]) :
            e \in {<<"document_uri is required">>, <<"bad scheme", "bucket is required">>}}
    \cup ActivityErrors

DownloadOutcomes ==
    {Returned([success |-> TRUE, content_size |-> n, content_type |-> "application/pdf",
               error |-> None]) : n \in {1024, 2048}}
    \cup {Returned([success |-> FALSE, content_size |-> 0, content_type |-> None,
                    error |-> "File not found"])}
    \cup ActivityErrors

ExtractOutcomes ==
    {Returned([success |-> TRUE, text |-> t, metadata |-> "meta", error |-> None]) :
        t \in {<<"a">>, <<"a", "b", "c">>}}
    \cup {Returned([success |-> FALSE, text |-> None, metadata |-> "none",
                    error |-> "Unsupported file format"])}
    \cup ActivityErrors

ChunkOutcomes ==
    {Returned([success |-> TRUE, chunks |-> c, chunk_metadata |-> [i \in DOMAIN c |-> i],
               error |-> None]) : c \in {<<"chunk1">>, <<"chunk1", "chunk2">>}}
    \cup {Returned([success |-> FALSE, chunks |-> <<>>, chunk_metadata |-> <<>>,
                    error |-> "Text too short to chunk"])}
    \cup ActivityErrors

EmbedOutcomes ==
    {Returned([success |-> TRUE, embeddings |-> e, embedding_dimensions |-> 2,
               error |-> None]) : e \in {<<"v1">>, <<"v1", "v2">>}}
    \cup {Returned([success |-> FALSE, embeddings |-> <<>>,
                    error |-> "Embedding API error"])}
    \cup ActivityErrors

StoreOutcomes ==
    {Returned([success |-> TRUE, stored_ids |-> s, storage_stats |-> "stats",
               index_name |-> "default-documents", error |-> None]) :
        s \in {<<"id1">>, <<"id1", "id2">>}}
    \cup {Returned([success |-> FALSE, stored_ids |-> <<>>,
                    error |-> "Vector database unavailable"])}
    \cup ActivityErrors

\* the dict returned when a stage reports failure
StageFailure(step, error) ==
    [success      |-> FALSE,
     step         |-> step,
     error        |-> error,
     document_uri |-> DocumentProcessingInput(input_data).document_uri,
     source       |-> DocumentProcessingInput(input_data).source]

\* the dict returned by the except clause of run
ExecutionFailure(msg) ==
    [success      |-> FALSE,
     step         |-> "workflow_execution",
     error        |-> msg,
     document_uri |-> Get(input_data, "document_uri", "unknown"),
     source       |-> Get(input_data, "source", "unknown")]

\* the dict returned after the sixth stage succeeded
SuccessResult(dl, tx, ch, em, st) ==
    LET doc_input == DocumentProcessingInput(input_data) IN
    [success      |-> TRUE,
     document_uri |-> doc_input.document_uri,
     source       |-> doc_input.source,
     event_type   |-> doc_input.event_type,
     processing_summary |->
        [content_size         |-> dl.content_size,
         content_type         |-> dl.content_type,
         text_length          |-> Len(tx.text),
         chunks_created       |-> Len(ch.chunks),
         embeddings_generated |-> Len(em.embeddings),
         chunks_stored        |-> Len(st.stored_ids),
         storage_stats        |-> st.storage_stats,
         index_name           |-> st.index_name],
     stored_ids   |-> st.stored_ids,
     user_context |-> IF doc_input.source = "chat"
                      THEN doc_input.additional_context ELSE None]

PInit ==
    /\ input_data \in Requests
    /\ p_pc = "start"
    /\ validation_result = NoResult
    /\ download_result = NoResult
    /\ text_result = NoResult
    /\ chunk_result = NoResult
    /\ embedding_result = NoResult
    /\ storage_result = NoResult
    /\ calls = <<>>
    /\ p_exc = None
    /\ p_result = NoResult

\* run, up to the first await: the conversion of the request
Convert ==
    /\ p_pc = "start"
    /\ IF ConstructorAccepts(input_data)
       THEN /\ p_pc' = "validate"
            /\ UNCHANGED <<p_exc, p_result>>
       ELSE /\ p_pc' = "done"
            /\ p_exc' = "TypeError"
            /\ p_result' = ExecutionFailure("TypeError")
    /\ UNCHANGED <<input_data, validation_result, download_result, text_result,
                   chunk_result, embedding_result, storage_result, calls>>
    /\ UNCHANGED <<svars, qvars, rvars, cvars, xvars>>

\* AfterStage without the return in the failure branch
AfterStage_NoReturn(o, step, errkey, next) ==
    IF o.kind = "raise"
    THEN [pc |-> "done", exc |-> o.msg, result |-> ExecutionFailure(o.msg)]
    ELSE [pc |-> next, exc |-> None, result |-> NoResult]

\* AfterStage without the except clause: the exception leaves run
AfterStage_Unhandled(o, step, errkey, next) ==
    IF o.kind = "raise"
    THEN [pc |-> "done", exc |-> o.msg, result |-> NoResult]
    ELSE IF ~o.value.success
         THEN [pc |-> "done", exc |-> None,
               result |-> StageFailure(step, o.value[errkey])]
         ELSE [pc |-> next, exc |-> None, result |-> NoResult]

\* where run goes after an awaited stage produced outcome o
AfterStage(o, step, errkey, next) ==
    IF o.kind = "raise"
    THEN [pc |-> "done", exc |-> o.msg, result |-> ExecutionFailure(o.msg)]
    ELSE IF ~o.value.success
         THEN [pc |-> "done", exc |-> None,
               result |-> StageFailure(step, o.value[errkey])]
         ELSE [pc |-> next, exc |-> None, result |-> NoResult]

\* the local a stage's outcome is assigned to
Assigned(o, old) == IF o.kind = "return" THEN o.value ELSE old

\* Step 1: validate_document(input_data)
Validate ==
    /\ p_pc = "validate"
    /\ \E o \in ValidateOutcomes :
        LET a == AfterStage(o, "validation", "errors", "download") IN
        /\ calls' = Append(calls, [activity |-> "validate_document", arg |-> input_data])
        /\ validation_result' = Assigned(o, validation_result)
        /\ p_pc' = a.pc
        /\ p_exc' = a.exc
        /\ p_result' = a.result
    /\ UNCHANGED <<input_data, download_result, text_result, chunk_result,
                   embedding_result, storage_result>>
    /\ UNCHANGED <<svars, qvars, rvars, cvars, xvars>>

\* Step 2: download_document(input_data)
Download ==
    /\ p_pc = "download"
    /\ \E o \in DownloadOutcomes :
        LET a == AfterStage(o, "download", "error", "extract") IN
        /\ calls' = Append(calls, [activity |-> "download_document", arg |-> input_data])
        /\ download_result' = Assigned(o, download_result)
        /\ p_pc' = a.pc
        /\ p_exc' = a.exc
        /\ p_result' = a.result
    /\ UNCHANGED <<input_data, validation_result, text_result, chunk_result,
                   embedding_result, storage_result>>
    /\ UNCHANGED <<svars, qvars, rvars, cvars, xvars>>

\* the argument dicts of steps 3 to 6
ExtractInput(dl, d) == [download_result |-> dl, input_data |-> d]
ChunkInput(tx, d) == [text_result |-> tx, input_data |-> d]
EmbeddingInput(ch, d) == [chunk_result |-> ch, input_data |-> d]
\* StorageInput handing the chunk result over twice
StorageInput_NoEmbeddings(ch, em, d) ==
    [chunk_result |-> ch, embedding_result |-> ch, input_data |-> d]

StorageInput(ch, em, d) ==
    [chunk_result |-> ch, embedding_result |-> em, input_data |-> d]

\* Step 3: extract_text({download_result, input_data})
Extract ==
    /\ p_pc = "extract"
    /\ \E o \in ExtractOutcomes :
        LET a == AfterStage(o, "text_extraction", "error", "chunk") IN
        /\ calls' = Append(calls, [activity |-> "extract_text",
                                   arg |-> ExtractInput(download_result, input_data)])
        /\ text_result' = Assigned(o, text_result)
        /\ p_pc' = a.pc
        /\ p_exc' = a.exc
        /\ p_result' = a.result
    /\ UNCHANGED <<input_data, validation_result, download_result, chunk_result,
                   embedding_result, storage_result>>
    /\ UNCHANGED <<svars, qvars, rvars, cvars, xvars>>

\* Step 4: chunk_text({text_result, input_data})
Chunk ==
    /\ p_pc = "chunk"
    /\ \E o \in ChunkOutcomes :
        LET a == AfterStage(o, "chunking", "error", "embed") IN
        /\ calls' = Append(calls, [activity |-> "chunk_text",
                                   arg |-> ChunkInput(text_result, input_data)])
        /\ chunk_result' = Assigned(o, chunk_result)
        /\ p_pc' = a.pc
        /\ p_exc' = a.exc
        /\ p_result' = a.result
    /\ UNCHANGED <<input_data, validation_result, download_result, text_result,
                   embedding_result, storage_result>>
    /\ UNCHANGED <<svars, qvars, rvars, cvars, xvars>>

\* Step 5: generate_embeddings({chunk_result, input_data})
Embed ==
    /\ p_pc = "embed"
    /\ \E o \in EmbedOutcomes :
        LET a == AfterStage(o, "embedding", "error", "store") IN
        /\ calls' = Append(calls, [activity |-> "generate_embeddings",
                                   arg |-> EmbeddingInput(chunk_result, input_data)])
        /\ embedding_result' = Assigned(o, embedding_result)
        /\ p_pc' = a.pc
        /\ p_exc' = a.exc
        /\ p_result' = a.result
    /\ UNCHANGED <<input_data, validation_result, download_result, text_result,
                   chunk_result, storage_result>>
    /\ UNCHANGED <<svars, qvars, rvars, cvars, xvars>>

\* Step 6: store_chunks({chunk_result, embedding_result, input_data}) and the
\* success return
Store ==
    /\ p_pc = "store"
    /\ \E o \in StoreOutcomes :
        LET a == AfterStage(o, "storage", "error", "done") IN
        /\ calls' = Append(calls, [activity |-> "store_chunks",
                                   arg |-> StorageInput(chunk_result, embedding_result,
                                                       input_data)])
        /\ storage_result' = Assigned(o, storage_result)
        /\ p_pc' = "done"
        /\ p_exc' = a.exc
        /\ p_result' = IF o.kind = "raise" \/ ~o.value.success
                       THEN a.result
                       ELSE SuccessResult(download_result, text_result, chunk_result,
                                          embedding_result, o.value)
    /\ UNCHANGED <<input_data, validation_result, download_result, text_result,
                   chunk_result, embedding_result>>
    /\ UNCHANGED <<svars, qvars, rvars, cvars, xvars>>

PNext == Convert \/ Validate \/ Download \/ Extract \/ Chunk \/ Embed \/ Store

\* no pipeline run in this behaviour
PIdle ==
    /\ input_data = <<>>
    /\ p_pc = "idle"
    /\ validation_result = NoResult
    /\ download_result = NoResult
    /\ text_result = NoResult
    /\ chunk_result = NoResult
    /\ embedding_result = NoResult
    /\ storage_result = NoResult
    /\ calls = <<>>
    /\ p_exc = None
    /\ p_result = NoResult

(***************************************************************************)
(* Part 2 - ChatSessionWorkflow                                            *)
(*                                                                         *)
(* run is a coroutine: it executes without interruption from one await to  *)
(* the next, so every run action below goes from one suspension point to   *)
(* the next.  A signal handler runs whenever the workflow is open, also    *)
(* before run has started and while run is suspended in an await.          *)
(***************************************************************************)

\* receive_message, update_user and trigger_workflow signals delivered to one session
MaxSignals == 3

NoState == [kind |-> "none"]
NoMessage == [kind |-> "none"]
NoChild == [kind |-> "none"]

HasState == state # NoState

\* a str given by a caller, as a string of one part
Str(x) == <<x>>
Empty == <<>>

\* ChatSessionState(...) as run builds it from its argument
ChatSessionState(d) ==
    [session_id    |-> Get(d, "sessionId", None),
     user_id       |-> Get(d, "userId", None),
     user_type     |-> Get(d, "userType", "guest"),
     message_count |-> Get(d, "messageCount", 0),
     is_active     |-> Get(d, "isActive", TRUE),
     last_activity |-> Get(d, "lastActivity", "")]

InitialStates ==
    { [sessionId |-> "s1"],
      [sessionId |-> "s1", userId |-> "u1", userType |-> "guest",
       messageCount |-> 2, isActive |-> TRUE, lastActivity |-> "t0"],
      [sessionId |-> "s1", userType |-> "guest", messageCount |-> 3,
       isActive |-> FALSE] }

\* payloads of receive_message: content is the sequence of its lower-case words
MessageDatas ==
    { [content |-> <<"hello">>, timestamp |-> "t1"],
      [messageId |-> Str("m1"), content |-> <<"upload", "file">>,
       timestamp |-> "t2", userId |-> "u1"] }

UserDatas ==
    { [userId |-> "u2", userType |-> "authenticated"], [userId |-> "u3"] }

WorkflowEvents ==
    { [eventType |-> "document-uploaded", documentUri |-> "/uploads/a.pdf"],
      [event_type |-> "custom"],
      [message |-> "no type"] }

\* workflow_keywords of analyze_message_for_workflows, in dict order, each
\* keyword list in list order
workflow_keywords ==
    << [type |-> "incident",
        keywords |-> <<"incident", "outage", "down", "error", "critical", "emergency", "alert">>],
       [type |-> "document",
        keywords |-> <<"document", "file", "upload", "process", "analyze", "pdf", "doc">>],
       [type |-> "data",
        keywords |-> <<"data", "pipeline", "etl", "process", "batch", "job", "analytics">>],
       [type |-> "automation",
        keywords |-> <<"automate", "workflow", "trigger", "run", "execute", "schedule">>] >>

\* the words messages are made of; "?" is a word of its own
Words ==
    {"hello", "upload", "file", "schedule", "job", "error", "download", "search",
     "process", "?"}

\* `keyword in message_lower` is a substring test: of the keywords, a word of
\* Words contains itself, and "download" contains "down"
KeywordIn(keyword, content) ==
    \E i \in DOMAIN content :
        \/ content[i] = keyword
        \/ content[i] = "download" /\ keyword = "down"

\* the entry the inner loop appends for a type, <<>> when no keyword of it occurs
Detection(w, content) ==
    LET hits == SelectSeq(w.keywords, LAMBDA k : KeywordIn(k, content)) IN
    IF hits = <<>> THEN <<>>
    ELSE << [type |-> w.type, keyword |-> hits[1], confidence |-> "0.8"] >>

\* detected_workflows: one entry for each type with a keyword in the message,
\* in table order
detected_workflows(content) ==
    Detection(workflow_keywords[1], content) \o Detection(workflow_keywords[2], content)
    \o Detection(workflow_keywords[3], content) \o Detection(workflow_keywords[4], content)

\* primaryWorkflow when nothing was detected (None in the source)
NoWorkflow == [type |-> None]

\* the dict analyze_message_for_workflows returns
analyze_message_for_workflows(content) ==
    LET detected == detected_workflows(content) IN
    [shouldTriggerWorkflow |-> Len(detected) > 0,
     detectedWorkflows     |-> detected,
     primaryWorkflow       |-> IF detected # <<>> THEN detected[1] ELSE NoWorkflow,
     confidence            |-> IF detected # <<>> THEN "0.8" ELSE "0.0"]

\* workflow_id of trigger_workflow
TriggerWorkflowId(event_type) ==
    << "chat-triggered", event_type,
       IF HasState THEN state.session_id ELSE "unknown",
       IF HasState THEN state.message_count ELSE 0 >>

\* event_type of trigger_workflow: eventType or event_type, None when both are missing or empty
EventTypeOf(workflow_event) ==
    IF Get(workflow_event, "eventType", None) \notin {None, ""}
    THEN workflow_event["eventType"]
    ELSE IF Get(workflow_event, "event_type", None) \notin {None, ""}
         THEN workflow_event["event_type"]
         ELSE None

\* the child workflow trigger_workflow starts for an event, with its argument
TriggeredChild(workflow_event) ==
    LET event_type == EventTypeOf(workflow_event) IN
    IF event_type \in {"document-added", "document-uploaded"}
    THEN [kind        |-> "trigger",
          workflow    |-> "DocumentProcessingWorkflow",
          workflow_id |-> TriggerWorkflowId(event_type),
          args        |-> [document_uri |-> Get(workflow_event, "documentUri", None),
                           source       |-> "chat",
                           event_type   |-> event_type,
                           additional_context |->
                              [chatId   |-> IF HasState THEN state.session_id ELSE None,
                               userId   |-> IF HasState THEN state.user_id ELSE None,
                               metadata |-> Get(workflow_event, "metadata", Empty)]]]
    ELSE [kind        |-> "trigger",
          workflow    |-> "GenericWorkflow",
          workflow_id |-> TriggerWorkflowId(event_type),
          args        |-> workflow_event]

\* the event _process_ai_message passes to trigger_workflow
MessageEvent(event_type, analysis_result, msg) ==
    [eventType |-> event_type,
     message   |-> msg.content,
     priority  |-> "normal",
     metadata  |-> [messageId  |-> msg.message_id,
                    confidence |-> analysis_result.confidence]]

\* what _process_ai_message awaits after the analysis returned analysis_result:
\* a child workflow, or NoChild when it goes straight to the acknowledgment
Dispatch(analysis_result, msg) ==
    IF ~analysis_result.shouldTriggerWorkflow \/ analysis_result.primaryWorkflow = NoWorkflow
    THEN NoChild
    ELSE LET workflow_type == analysis_result.primaryWorkflow.type IN
         CASE workflow_type = "search" ->
                [kind |-> "search", workflow |-> "SemanticSearchWorkflow",
                 workflow_id |-> <<"semantic-search", msg.message_id>>]
           [] workflow_type = "document" ->
                TriggeredChild(MessageEvent("document-added", analysis_result, msg))
           [] workflow_type \in {"data", "automation"} ->
                TriggeredChild(MessageEvent("user-request", analysis_result, msg))
           [] OTHER -> NoChild

\* the strings run returns
\* run has not returned
NoSummary == <<"open">>

CompletedSummary(st, tw) == <<"completed", st.session_id, st.message_count, Len(tw)>>
FailedSummary(st, e) == <<"failed", st.session_id, e>>

\* LoopFrom popping the newest message instead of the oldest
LoopFrom_Lifo(st, q, tw) ==
    IF ~st.is_active
    THEN [pc |-> "done", message |-> NoMessage, queue |-> q,
          result |-> CompletedSummary(st, tw)]
    ELSE IF q # <<>>
         THEN [pc |-> "analysis", message |-> q[Len(q)],
               queue |-> SubSeq(q, 1, Len(q) - 1), result |-> NoSummary]
         ELSE [pc |-> "waiting", message |-> NoMessage, queue |-> q,
               result |-> NoSummary]

\* LoopFrom draining the queue before it looks at is_active
LoopFrom_Drain(st, q, tw) ==
    IF q # <<>>
    THEN [pc |-> "analysis", message |-> Head(q), queue |-> Tail(q),
          result |-> NoSummary]
    ELSE IF ~st.is_active
         THEN [pc |-> "done", message |-> NoMessage, queue |-> q,
               result |-> CompletedSummary(st, tw)]
         ELSE [pc |-> "waiting", message |-> NoMessage, queue |-> q,
               result |-> NoSummary]

\* the main loop of run from the test of `while self._state.is_active` to its
\* next await or to its return
LoopFrom(st, q, tw) ==
    IF ~st.is_active
    THEN [pc |-> "done", message |-> NoMessage, queue |-> q,
          result |-> CompletedSummary(st, tw)]
    ELSE IF q # <<>>
         THEN [pc |-> "analysis", message |-> Head(q), queue |-> Tail(q),
               result |-> NoSummary]
         ELSE [pc |-> "waiting", message |-> NoMessage, queue |-> q,
               result |-> NoSummary]

Resume(st, q, tw) ==
    LET l == LoopFrom(st, q, tw) IN
    /\ s_pc' = l.pc
    /\ message' = l.message
    /\ ai_processing_queue' = l.queue
    /\ s_result' = l.result
    /\ dequeued' = IF l.pc = "analysis" THEN Append(dequeued, l.message) ELSE dequeued

SInit ==
    /\ initial_state \in InitialStates
    /\ state = NoState
    /\ message_history = <<>>
    /\ triggered_workflows = <<>>
    /\ ai_processing_queue = <<>>
    /\ s_pc = "not_started"
    /\ message = NoMessage
    /\ child = NoChild
    /\ handlers = <<>>
    /\ s_result = NoSummary
    /\ dequeued = <<>>
    /\ completed = 0
    /\ end_signalled = FALSE
    /\ ended_at = -1
    /\ n_messages = 0
    /\ n_updates = 0
    /\ n_triggers = 0

\* run from its start: the state is initialised and the loop entered
RunStart ==
    /\ s_pc = "not_started"
    /\ state' = ChatSessionState(initial_state)
    /\ Resume(state', ai_processing_queue, triggered_workflows)
    /\ UNCHANGED <<initial_state, message_history, triggered_workflows, child,
                   handlers, completed, end_signalled, ended_at, n_messages, n_updates,
                   n_triggers>>
    /\ UNCHANGED <<pvars, qvars, rvars, cvars, xvars>>

\* _process_ai_message returns to the loop
ProcessReturns ==
    /\ completed' = completed + 1
    /\ child' = NoChild
    /\ Resume(state, ai_processing_queue, triggered_workflows')

\* the analysis activity returns or raises
AnalysisReturns ==
    /\ s_pc = "analysis"
    /\ \E raised \in BOOLEAN :
        IF raised
        THEN /\ UNCHANGED triggered_workflows
             /\ ProcessReturns
        ELSE LET c == Dispatch(analyze_message_for_workflows(message.content), message) IN
             /\ s_pc' = IF c = NoChild THEN "ack" ELSE "child"
             /\ child' = c
             /\ UNCHANGED <<triggered_workflows, message, ai_processing_queue,
                            s_result, dequeued, completed>>
    /\ UNCHANGED <<initial_state, state, message_history, handlers, end_signalled, ended_at,
                   n_messages, n_updates, n_triggers>>
    /\ UNCHANGED <<pvars, qvars, rvars, cvars, xvars>>

\* the child workflow awaited by _process_ai_message returns or fails
ChildReturns ==
    /\ s_pc = "child"
    /\ \E failed \in BOOLEAN :
        IF failed
        THEN /\ UNCHANGED triggered_workflows
             /\ ProcessReturns
        ELSE /\ triggered_workflows' =
                    IF child.kind = "trigger"
                    THEN Append(triggered_workflows, child.workflow_id)
                    ELSE triggered_workflows
             /\ s_pc' = "ack"
             /\ child' = NoChild
             /\ UNCHANGED <<message, ai_processing_queue, s_result, dequeued, completed>>
    /\ UNCHANGED <<initial_state, state, message_history, handlers, end_signalled, ended_at,
                   n_messages, n_updates, n_triggers>>
    /\ UNCHANGED <<pvars, qvars, rvars, cvars, xvars>>

\* the acknowledgment activity returns or raises: either way the message is done
AckReturns ==
    /\ s_pc = "ack"
    /\ UNCHANGED triggered_workflows
    /\ ProcessReturns
    /\ UNCHANGED <<initial_state, state, message_history, handlers, end_signalled, ended_at,
                   n_messages, n_updates, n_triggers>>
    /\ UNCHANGED <<pvars, qvars, rvars, cvars, xvars>>

\* WaitCondition without the test of the queue
WaitCondition_ActiveOnly == ~state.is_active

\* the predicate of workflow.wait_condition
WaitCondition == ~state.is_active \/ ai_processing_queue # <<>>

WaitReturns ==
    /\ s_pc = "waiting"
    /\ WaitCondition
    /\ Resume(state, ai_processing_queue, triggered_workflows)
    /\ UNCHANGED <<initial_state, state, message_history, triggered_workflows, child,
                   handlers, completed, end_signalled, ended_at, n_messages, n_updates,
                   n_triggers>>
    /\ UNCHANGED <<pvars, qvars, rvars, cvars, xvars>>

\* the 24 hour timer fires first: TimeoutError reaches the except clause of run
WaitTimeout ==
    /\ s_pc = "waiting"
    /\ ~WaitCondition
    /\ s_pc' = "done"
    /\ s_result' = FailedSummary(state, "TimeoutError")
    /\ UNCHANGED <<initial_state, state, message_history, triggered_workflows,
                   ai_processing_queue, message, child, handlers, dequeued, completed,
                   end_signalled, ended_at, n_messages, n_updates, n_triggers>>
    /\ UNCHANGED <<pvars, qvars, rvars, cvars, xvars>>

\* the ChatMessage receive_message builds
ChatMessage(message_data) ==
    [message_id |-> IF Get(message_data, "messageId", Empty) # Empty
                    THEN message_data["messageId"]
                    ELSE << IF HasState THEN state.session_id ELSE "unknown",
                            "msg", Len(message_history) + 1 >>,
     content    |-> Get(message_data, "content", Empty),
     role       |-> Get(message_data, "role", "user"),
     timestamp  |-> Get(message_data, "timestamp", ""),
     user_id    |-> Get(message_data, "userId", None)]

\* Counted taking the count from the length of the history
Counted_FromHistory(st, msg) ==
    IF st # NoState
    THEN [st EXCEPT !.message_count = Len(message_history) + 1,
                    !.last_activity = msg.timestamp]
    ELSE st

\* the state update of receive_message
Counted(st, msg) ==
    IF st # NoState
    THEN [st EXCEPT !.message_count = @ + 1, !.last_activity = msg.timestamp]
    ELSE st

receive_message(message_data) ==
    /\ s_pc # "done"
    /\ n_messages + n_updates + n_triggers < MaxSignals
    /\ LET msg == ChatMessage(message_data) IN
        /\ message_history' = Append(message_history, msg)
        /\ state' = Counted(state, msg)
        /\ ai_processing_queue' = Append(ai_processing_queue, msg)
    /\ n_messages' = n_messages + 1
    /\ UNCHANGED <<initial_state, triggered_workflows, s_pc, message, child, handlers,
                   s_result, dequeued, completed, end_signalled, ended_at, n_updates, n_triggers>>
    /\ UNCHANGED <<pvars, qvars, rvars, cvars, xvars>>

\* UserUpdated building a new ChatSessionState, is_active at its default
UserUpdated_Rebuilt(st, user_data) ==
    IF st # NoState
    THEN [st EXCEPT !.user_id = Get(user_data, "userId", None),
                    !.user_type = Get(user_data, "userType", "guest"),
                    !.is_active = TRUE]
    ELSE st

\* the state update of update_user
UserUpdated(st, user_data) ==
    IF st # NoState
    THEN [st EXCEPT !.user_id = Get(user_data, "userId", None),
                    !.user_type = Get(user_data, "userType", "guest")]
    ELSE st

update_user(user_data) ==
    /\ s_pc # "done"
    /\ n_messages + n_updates + n_triggers < MaxSignals
    /\ state' = UserUpdated(state, user_data)
    /\ n_updates' = n_updates + 1
    /\ UNCHANGED <<initial_state, message_history, triggered_workflows,
                   ai_processing_queue, s_pc, message, child, handlers, s_result,
                   dequeued, completed, end_signalled, ended_at, n_messages, n_triggers>>
    /\ UNCHANGED <<pvars, qvars, rvars, cvars, xvars>>

\* the state update of end_session
Ended(st) == IF st # NoState THEN [st EXCEPT !.is_active = FALSE] ELSE st

\* end_session returning from run at once, whatever run is awaiting
end_session_Abort ==
    /\ s_pc # "done"
    /\ state' = Ended(state)
    /\ end_signalled' = TRUE
    /\ ended_at' = IF HasState /\ state.is_active THEN Len(message_history) ELSE ended_at
    /\ s_pc' = IF HasState THEN "done" ELSE s_pc
    /\ s_result' = IF HasState
                   THEN CompletedSummary(state', triggered_workflows)
                   ELSE s_result
    /\ UNCHANGED <<initial_state, message_history, triggered_workflows,
                   ai_processing_queue, message, child, handlers, dequeued,
                   completed, n_messages, n_updates, n_triggers>>
    /\ UNCHANGED <<pvars, qvars, rvars, cvars, xvars>>

end_session ==
    /\ s_pc # "done"
    /\ state' = Ended(state)
    /\ end_signalled' = TRUE
    /\ ended_at' = IF HasState /\ state.is_active THEN Len(message_history) ELSE ended_at
    /\ UNCHANGED <<initial_state, message_history, triggered_workflows,
                   ai_processing_queue, s_pc, message, child, handlers, s_result,
                   dequeued, completed, n_messages, n_updates, n_triggers>>
    /\ UNCHANGED <<pvars, qvars, rvars, cvars, xvars>>

\* the trigger_workflow signal up to its await: nothing without an event type,
\* else the handler suspends on the child it started
trigger_workflow(workflow_event) ==
    /\ s_pc # "done"
    /\ n_messages + n_updates + n_triggers < MaxSignals
    /\ LET event_type == EventTypeOf(workflow_event) IN
        handlers' = IF event_type = None
                    THEN handlers
                    ELSE Append(handlers, TriggeredChild(workflow_event))
    /\ n_triggers' = n_triggers + 1
    /\ UNCHANGED <<initial_state, state, message_history, triggered_workflows,
                   ai_processing_queue, s_pc, message, child, s_result, dequeued,
                   completed, end_signalled, ended_at, n_messages, n_updates>>
    /\ UNCHANGED <<pvars, qvars, rvars, cvars, xvars>>

RemoveAt(s, i) == SubSeq(s, 1, i - 1) \o SubSeq(s, i + 1, Len(s))

\* the child of a trigger_workflow signal returns, and its id is logged, or
\* fails: the ApplicationError leaves the handler and fails the workflow
HandlerChildReturns ==
    /\ s_pc # "done"
    /\ \E i \in DOMAIN handlers, failed \in BOOLEAN :
        /\ handlers' = RemoveAt(handlers, i)
        /\ IF failed
           THEN /\ s_pc' = "done"
                /\ s_result' = <<"workflow failed", "ApplicationError">>
                /\ UNCHANGED triggered_workflows
           ELSE /\ triggered_workflows' = Append(triggered_workflows,
                                                 handlers[i].workflow_id)
                /\ UNCHANGED <<s_pc, s_result>>
    /\ UNCHANGED <<initial_state, state, message_history, ai_processing_queue,
                   message, child, dequeued, completed, end_signalled, ended_at, n_messages,
                   n_updates, n_triggers>>
    /\ UNCHANGED <<pvars, qvars, rvars, cvars, xvars>>

\* check_rate_limit counting a guest as limited only above three messages
check_rate_limit_Above ==
    IF ~HasState
    THEN [limited |-> FALSE, reason |-> "No session state"]
    ELSE IF state.user_type = "guest" /\ state.message_count > 3
         THEN [limited |-> TRUE, reason |-> "Guest user message limit reached",
               messageCount |-> state.message_count, limit |-> 3]
         ELSE [limited |-> FALSE, messageCount |-> state.message_count,
               limit |-> IF state.user_type = "guest" THEN 3 ELSE -1]

\* the dict the query check_rate_limit returns in the current state
check_rate_limit ==
    IF ~HasState
    THEN [limited |-> FALSE, reason |-> "No session state"]
    ELSE IF state.user_type = "guest" /\ state.message_count >= 3
         THEN [limited |-> TRUE, reason |-> "Guest user message limit reached",
               messageCount |-> state.message_count, limit |-> 3]
         ELSE [limited |-> FALSE, messageCount |-> state.message_count,
               limit |-> IF state.user_type = "guest" THEN 3 ELSE -1]

SNext ==
    \/ RunStart
    \/ AnalysisReturns
    \/ ChildReturns
    \/ AckReturns
    \/ WaitReturns
    \/ WaitTimeout
    \/ \E message_data \in MessageDatas : receive_message(message_data)
    \/ \E user_data \in UserDatas : update_user(user_data)
    \/ end_session
    \/ \E workflow_event \in WorkflowEvents : trigger_workflow(workflow_event)
    \/ HandlerChildReturns

\* no chat session in this behaviour
SIdle ==
    /\ initial_state = <<>>
    /\ state = NoState
    /\ message_history = <<>>
    /\ triggered_workflows = <<>>
    /\ ai_processing_queue = <<>>
    /\ s_pc = "idle"
    /\ message = NoMessage
    /\ child = NoChild
    /\ handlers = <<>>
    /\ s_result = NoSummary
    /\ dequeued = <<>>
    /\ completed = 0
    /\ end_signalled = FALSE
    /\ ended_at = -1
    /\ n_messages = 0
    /\ n_updates = 0
    /\ n_triggers = 0

NoReturn == [query |-> "none"]

\* no query in this behaviour
QIdle == returned = NoReturn

\* no validation or routing call in this behaviour
RIdle ==
    /\ event = <<>>
    /\ default_config = [kind |-> "none"]
    /\ custom_config = [kind |-> "none"]
    /\ r_pc = "idle"
    /\ validation = NoResult
    /\ routing_result = NoResult
    /\ activity_result = NoResult

\* no chunk_text call in this behaviour
CIdle ==
    /\ chunk_input = <<>>
    /\ c_pc = "idle"
    /\ start = 0
    /\ chunk_index = 0
    /\ chunks = <<>>
    /\ chunk_metadata = <<>>
    /\ chunk_output = NoResult

\* a pipeline run alone
\* no root orchestrator in this behaviour
OIdle ==
    /\ root_input = <<>>
    /\ self_event_payload = <<>>
    /\ self_configuration = <<>>
    /\ event_payload = <<>>
    /\ o_pc = "idle"
    /\ o_calls = <<>>
    /\ o_result = <<"open">>
    /\ o_signals = 0

\* no choose_workflow call in this behaviour
KIdle == choose_params = <<>> /\ chosen = NoResult

\* no validate_document call in this behaviour
DIdle == document_request = <<>> /\ document_validation = NoResult

\* no stage called in this behaviour
GIdle ==
    /\ extract_input = <<>>
    /\ g_pc = "idle"
    /\ embedding_output = NoResult
    /\ storage_input = NoResult
    /\ storage_outputs = <<>>

XIdle == OIdle /\ KIdle /\ DIdle /\ GIdle

PipelineInit == PInit /\ SIdle /\ QIdle /\ RIdle /\ CIdle /\ XIdle

SpecPipeline == PipelineInit /\ [][PNext]_vars

\* a chat session alone
SessionInit == SInit /\ PIdle /\ QIdle /\ RIdle /\ CIdle /\ XIdle

SpecSession == SessionInit /\ [][SNext]_vars

\* the position of run in its loop
loop == <<s_pc, completed>>

\* the steps of run: at most one is enabled, by the position of run
RunSteps == RunStart \/ AnalysisReturns \/ ChildReturns \/ AckReturns \/ WaitReturns

\* the session with a run that keeps going: run starts, every activity and
\* child awaited by the loop comes back, and a wait whose condition holds
\* returns
SessionFairness == WF_loop(RunSteps)

\* the loop of run with the two signals that change what it waits for
LoopNext ==
    \/ RunStart
    \/ AnalysisReturns
    \/ ChildReturns
    \/ AckReturns
    \/ WaitReturns
    \/ WaitTimeout
    \/ \E message_data \in MessageDatas : receive_message(message_data)
    \/ end_session

SpecSessionLive == SessionInit /\ [][LoopNext]_vars /\ SessionFairness

\* longest message content, in words, of the single-message behaviours
MaxWords == 2

\* message contents of one to MaxWords words
Contents == UNION { [1..n -> Words] : n \in 1..MaxWords }

\* one _process_ai_message call: the session {'sessionId': 's1'} has received
\* one message and run has popped it and awaits its analysis
ProcessInit ==
    /\ initial_state = [sessionId |-> "s1"]
    /\ \E content \in Contents :
            message = [message_id |-> Str("m1"), content |-> content, role |-> "user",
                       timestamp |-> "t1", user_id |-> None]
    /\ state = [ChatSessionState(initial_state) EXCEPT !.message_count = 1,
                                                       !.last_activity = "t1"]
    /\ message_history = <<message>>
    /\ triggered_workflows = <<>>
    /\ ai_processing_queue = <<>>
    /\ s_pc = "analysis"
    /\ child = NoChild
    /\ handlers = <<>>
    /\ s_result = NoSummary
    /\ dequeued = <<message>>
    /\ completed = 0
    /\ end_signalled = FALSE
    /\ ended_at = -1
    /\ n_messages = 1
    /\ n_updates = 0
    /\ n_triggers = 0
    /\ PIdle
    /\ QIdle
    /\ RIdle
    /\ CIdle
    /\ XIdle

ProcessNext ==
    \/ AnalysisReturns
    \/ ChildReturns
    \/ AckReturns

SpecProcess == ProcessInit /\ [][ProcessNext]_vars

(***************************************************************************)
(* Part 3 - the queries of ChatSessionWorkflow                             *)
(*                                                                         *)
(* A query answers from the fields of the workflow object.  The caller     *)
(* holds what was returned and may modify it; a returned list that is the  *)
(* list object of the workflow is modified with it.                        *)
(***************************************************************************)

\* longest message history of the queried sessions
MaxHistory == 2

\* the payloads received so far, oldest first
Payloads == UNION { [1..n -> MessageDatas] : n \in 0..MaxHistory }

\* the history receive_message has built from them, session_id being the
\* session id it found when it assigned the fallback ids
HistoryOf(payloads, session_id) ==
    [i \in DOMAIN payloads |->
        [message_id |-> IF Get(payloads[i], "messageId", Empty) # Empty
                        THEN payloads[i]["messageId"]
                        ELSE <<session_id, "msg", i>>,
         content    |-> Get(payloads[i], "content", Empty),
         role       |-> Get(payloads[i], "role", "user"),
         timestamp  |-> Get(payloads[i], "timestamp", ""),
         user_id    |-> Get(payloads[i], "userId", None)]]

\* triggered-workflow logs of the queried sessions
Logs ==
    { <<>>,
      << <<"chat-triggered", "document-uploaded", "s1", 0>> >>,
      << <<"chat-triggered", "document-added", "s1", 1>>,
         <<"chat-triggered", "custom", "s1", 1>> >> }

\* a session at the moment it is queried: before run has initialised the
\* state, with the messages received so far still queued, or suspended in the
\* wait of the main loop (closed, if it was started inactive) with every
\* message processed
QueryInit ==
    /\ initial_state \in InitialStates
    /\ \E payloads \in Payloads, initialised \in BOOLEAN :
        /\ message_history =
                HistoryOf(payloads, IF initialised THEN initial_state["sessionId"]
                                    ELSE "unknown")
        /\ state = IF initialised
                   THEN [ChatSessionState(initial_state) EXCEPT
                            !.message_count = @ + Len(payloads),
                            !.last_activity = IF payloads = <<>> THEN @
                                              ELSE message_history[Len(payloads)].timestamp]
                   ELSE NoState
        /\ ai_processing_queue = IF initialised THEN <<>> ELSE message_history
        /\ dequeued = IF initialised THEN message_history ELSE <<>>
        /\ completed = Len(dequeued)
        /\ s_pc = IF ~initialised THEN "not_started"
                  ELSE IF state.is_active THEN "waiting" ELSE "done"
        /\ s_result = IF s_pc = "done"
                      THEN CompletedSummary(state, <<>>)
                      ELSE NoSummary
    /\ triggered_workflows \in IF s_pc = "done" THEN {<<>>} ELSE Logs
    /\ message = NoMessage
    /\ child = NoChild
    /\ handlers = <<>>
    /\ end_signalled = FALSE
    /\ ended_at = -1
    /\ n_messages = Len(message_history)
    /\ n_updates = 0
    /\ n_triggers = Len(triggered_workflows)
    /\ returned = NoReturn
    /\ PIdle
    /\ RIdle
    /\ CIdle
    /\ XIdle

\* the dict get_session_state returns, NoState for None
SessionStateDict ==
    IF ~HasState THEN NoState
    ELSE [sessionId    |-> state.session_id,
          userId       |-> state.user_id,
          userType     |-> state.user_type,
          messageCount |-> state.message_count,
          isActive     |-> state.is_active,
          lastActivity |-> state.last_activity]

get_session_state ==
    /\ returned' = [query |-> "get_session_state", value |-> SessionStateDict,
                    is_log |-> FALSE]
    /\ UNCHANGED <<pvars, svars, rvars, cvars, xvars>>

\* params of get_message_history: None, or a dict with or without a limit
HistoryParams ==
    {<<>>, [limit |-> 1], [limit |-> 2], [limit |-> 0], [limit |-> -1], [order |-> "asc"]}

\* recent_messages taking the oldest messages, self._message_history[:limit]
recent_messages_Oldest(limit) ==
    IF limit > 0
    THEN SubSeq(message_history, 1,
                IF Len(message_history) > limit THEN limit ELSE Len(message_history))
    ELSE message_history

\* self._message_history[-limit:] if limit > 0 else self._message_history
recent_messages(limit) ==
    IF limit > 0
    THEN SubSeq(message_history,
                IF Len(message_history) > limit THEN Len(message_history) - limit + 1 ELSE 1,
                Len(message_history))
    ELSE message_history

get_message_history(params) ==
    /\ LET limit == Get(params, "limit", 50)
           recent == recent_messages(limit)
       IN returned' = [query |-> "get_message_history",
                       value |-> [i \in DOMAIN recent |->
                                    [messageId |-> recent[i].message_id,
                                     content   |-> recent[i].content,
                                     role      |-> recent[i].role,
                                     timestamp |-> recent[i].timestamp,
                                     userId    |-> recent[i].user_id]],
                       is_log |-> FALSE,
                       params |-> params]
    /\ UNCHANGED <<pvars, svars, rvars, cvars, xvars>>

\* get_triggered_workflows returning the list itself
ReturnedLog_Itself ==
    [query |-> "get_triggered_workflows", value |-> triggered_workflows, is_log |-> TRUE]

\* self._triggered_workflows.copy(): a new list with the same items
ReturnedLog ==
    [query |-> "get_triggered_workflows", value |-> triggered_workflows, is_log |-> FALSE]

get_triggered_workflows ==
    /\ returned' = ReturnedLog
    /\ UNCHANGED <<pvars, svars, rvars, cvars, xvars>>

check_rate_limit_query ==
    /\ returned' = [query |-> "check_rate_limit", value |-> check_rate_limit,
                    is_log |-> FALSE]
    /\ UNCHANGED <<pvars, svars, rvars, cvars, xvars>>

\* the caller appends to the list get_triggered_workflows gave it
CallerAppends ==
    /\ returned.query = "get_triggered_workflows"
    /\ Len(returned.value) <= Len(triggered_workflows)
    /\ returned' = [returned EXCEPT !.value = Append(@, <<"added by the caller">>)]
    /\ triggered_workflows' = IF returned.is_log
                              THEN Append(triggered_workflows, <<"added by the caller">>)
                              ELSE triggered_workflows
    /\ UNCHANGED <<initial_state, state, message_history, ai_processing_queue, s_pc,
                   message, child, handlers, s_result, dequeued, completed,
                   end_signalled, ended_at, n_messages, n_updates, n_triggers>>
    /\ UNCHANGED <<pvars, rvars, cvars, xvars>>

QueryNext ==
    \/ get_session_state
    \/ \E params \in HistoryParams : get_message_history(params)
    \/ get_triggered_workflows
    \/ check_rate_limit_query
    \/ CallerAppends

SpecQueries == QueryInit /\ [][QueryNext]_vars
(***************************************************************************)
(* Part 4 - event validation and event routing                             *)
(*                                                                         *)
(* A Python value whose type matters is a record of its type and its       *)
(* content, under a field named after the type; str.lower and str.strip    *)
(* are given by their effect on the strings of the model.                  *)
(***************************************************************************)

PyStr(x) == [type |-> "str", str |-> x]
PyInt(x) == [type |-> "int", int |-> x]
PyNone == [type |-> "NoneType"]
PyDict(d) == [type |-> "dict", dict |-> d]

\* str.lower()
Lower(x) ==
    CASE x = "Test-Event" -> "test-event"
      [] x = "S3" -> "s3"
      [] x \in {"Incident", "INCIDENT"} -> "incident"
      [] OTHER -> x

\* str.strip()
Strip(x) ==
    CASE x = " test-event " -> "test-event"
      [] x = " s3 " -> "s3"
      [] x = "  " -> ""
      [] OTHER -> x

\* values of eventType and of source in the events of the model
EventTypeValues ==
    { PyStr(x) : x \in {"test-event", "Test-Event", " test-event ", "unknown-event",
                         "document-added", "incident", "", "  "} }
    \cup {PyInt(123)}
SourceValues ==
    { PyStr(x) : x \in {"s3", "S3", " s3 ", "monitoring"} } \cup {PyNone, PyInt(123)}

\* the dict events: with or without eventType, source and one more field
DictEvents ==
    { [k \in ks |-> CASE k = "eventType" -> et
                      [] k = "source" -> src
                      [] k = "documentUri" -> PyStr("s3://bucket/file.txt")] :
        ks \in SUBSET {"eventType", "source", "documentUri"},
        et \in EventTypeValues, src \in SourceValues }

\* the raw events: dicts, and two values that are no dict
RawEvents == { PyDict(d) : d \in DictEvents } \cup {PyStr("not a dict"), PyNone}

(* EventValidationService.validate_event *)

\* ValidationErrors stopping at the first rule that is violated
ValidationErrors_FirstOnly(d) ==
    LET event_type == Get(d, "eventType", PyStr(""))
        source == Get(d, "source", PyNone)
    IN IF "eventType" \notin DOMAIN d
       THEN <<"Event must contain 'eventType' field">>
       ELSE IF event_type.type # "str"
       THEN <<"eventType must be a string">>
       ELSE IF Strip(event_type.str) = ""
       THEN <<"'eventType' must be a non-empty string">>
       ELSE IF source.type \notin {"NoneType", "str"}
       THEN <<"'source' field must be a string if present">>
       ELSE <<>>

\* the errors list of validate_event for a dict
ValidationErrors(d) ==
    LET event_type == Get(d, "eventType", PyStr(""))
        source == Get(d, "source", PyNone)
    IN (IF "eventType" \notin DOMAIN d
        THEN <<"Event must contain 'eventType' field">> ELSE <<>>)
       \o (IF event_type.type # "str"
           THEN <<"eventType must be a string">>
           ELSE IF Strip(event_type.str) = ""
                THEN <<"'eventType' must be a non-empty string">> ELSE <<>>)
       \o (IF source.type \notin {"NoneType", "str"}
           THEN <<"'source' field must be a string if present">> ELSE <<>>)

\* NormalizedEvent copying eventType and source as they are
NormalizedEvent_Untrimmed(d) ==
    [k \in DOMAIN d \cup {"eventType", "source"} |->
        CASE k = "eventType" -> d["eventType"]
          [] k = "source" -> Get(d, "source", PyStr(""))
          [] OTHER -> d[k]]

\* normalized_event, built when there is no error
NormalizedEvent(d) ==
    LET source == Get(d, "source", PyNone) IN
    [k \in DOMAIN d \cup {"eventType", "source"} |->
        CASE k = "eventType" -> PyStr(Strip(d["eventType"].str))
          [] k = "source" -> IF source.type = "str" /\ source.str # ""
                             THEN PyStr(Strip(source.str)) ELSE PyStr("")
          [] OTHER -> d[k]]

\* the EventValidationResult
EventValidationResult(raw) ==
    IF raw.type # "dict"
    THEN [is_valid |-> FALSE, errors |-> <<"Event must be a dictionary">>,
          normalized_event |-> PyNone]
    ELSE LET errors == ValidationErrors(raw.dict) IN
         [is_valid |-> errors = <<>>,
          errors |-> errors,
          normalized_event |-> IF errors = <<>> THEN PyDict(NormalizedEvent(raw.dict))
                               ELSE PyNone]

NoConfig == [kind |-> "none"]

ValidationInit ==
    /\ event \in RawEvents
    /\ default_config = NoConfig
    /\ custom_config = NoConfig
    /\ r_pc = "start"
    /\ validation = NoResult
    /\ routing_result = NoResult
    /\ activity_result = NoResult
    /\ PIdle
    /\ SIdle
    /\ QIdle
    /\ CIdle
    /\ XIdle

validate_event ==
    /\ r_pc = "start"
    /\ validation' = EventValidationResult(event)
    /\ r_pc' = "validate_event"
    /\ UNCHANGED <<event, default_config, custom_config, routing_result, activity_result>>
    /\ UNCHANGED <<pvars, svars, qvars, cvars, xvars>>

SpecValidation == ValidationInit /\ [][validate_event]_vars

(* WorkflowRouter, EventRoutingService and the route_event activity *)

WorkflowConfig(name, class, queue, enabled) ==
    [workflow_name |-> name, workflow_class |-> class, task_queue |-> queue,
     enabled |-> enabled]

NoWorkflowConfig == [kind |-> "none"]

DEFAULT_ROUTING_CONFIG ==
    [event_type_mappings |->
        [k \in {"document-added", "document-uploaded", "data-processing"} |->
            IF k = "data-processing" THEN "data_processing_workflow"
            ELSE "document_processing_workflow"],
     source_mappings |->
        [k \in {"s3", "azure-blob", "sharepoint"} |-> "document_processing_workflow"],
     default_workflow |-> "document_processing_workflow",
     workflows |->
        [k \in {"document_processing_workflow", "data_processing_workflow"} |->
            IF k = "document_processing_workflow"
            THEN WorkflowConfig(k, "DocumentProcessingWorkflow",
                                "document_processing-queue", TRUE)
            ELSE WorkflowConfig(k, "DataProcessingWorkflow",
                                "data_processing-queue", TRUE)]]

\* the registries over two workflows: each absent, disabled or enabled
Registries ==
    { [k \in DOMAIN en |->
          WorkflowConfig(k, "Workflow", IF k = "wf_a" THEN "a-queue" ELSE "b-queue", en[k])] :
        en \in UNION { [names -> BOOLEAN] : names \in SUBSET {"wf_a", "wf_b"} } }

\* routing tables with or without a mapping of test-event, a mapping of s3
\* and a default workflow
RoutingConfigs ==
    { [event_type_mappings |-> em, source_mappings |-> sm, default_workflow |-> dw,
       workflows |-> ws] :
        em \in {<<>>, [k \in {"test-event"} |-> "wf_a"]},
        sm \in {<<>>, [k \in {"s3"} |-> "wf_b"]},
        dw \in {None, "wf_a", "wf_b"},
        ws \in Registries }

\* get_workflow_config returning the configuration whether enabled or not
get_workflow_config_IgnoreEnabled(config, workflow_name) ==
    IF workflow_name \notin DOMAIN config.workflows
    THEN NoWorkflowConfig
    ELSE config.workflows[workflow_name]

\* WorkflowRouter._get_workflow_config
get_workflow_config(config, workflow_name) ==
    IF workflow_name \notin DOMAIN config.workflows
    THEN NoWorkflowConfig
    ELSE IF config.workflows[workflow_name].enabled
         THEN config.workflows[workflow_name]
         ELSE NoWorkflowConfig

AttributeError == [kind |-> "raise", type |-> "AttributeError"]

\* event.get(key, "").lower() raises for a value that is no string
CanLower(ev) ==
    /\ Get(ev, "eventType", PyStr("")).type = "str"
    /\ Get(ev, "source", PyStr("")).type = "str"

\* WorkflowRouter_route_event trying the source mapping first
WorkflowRouter_route_event_SourceFirst(config, ev) ==
    LET event_type == Lower(Get(ev, "eventType", PyStr("")).str)
        source == Lower(Get(ev, "source", PyStr("")).str)
    IN IF source # "" /\ source \in DOMAIN config.source_mappings
       THEN get_workflow_config(config, config.source_mappings[source])
       ELSE IF event_type # "" /\ event_type \in DOMAIN config.event_type_mappings
       THEN get_workflow_config(config, config.event_type_mappings[event_type])
       ELSE IF config.default_workflow \notin {None, ""}
       THEN get_workflow_config(config, config.default_workflow)
       ELSE NoWorkflowConfig

\* WorkflowRouter.route_event for an event whose eventType and source are
\* strings or absent
WorkflowRouter_route_event(config, ev) ==
    LET event_type == Lower(Get(ev, "eventType", PyStr("")).str)
        source == Lower(Get(ev, "source", PyStr("")).str)
    IN IF event_type # "" /\ event_type \in DOMAIN config.event_type_mappings
       THEN get_workflow_config(config, config.event_type_mappings[event_type])
       ELSE IF source # "" /\ source \in DOMAIN config.source_mappings
       THEN get_workflow_config(config, config.source_mappings[source])
       ELSE IF config.default_workflow \notin {None, ""}
       THEN get_workflow_config(config, config.default_workflow)
       ELSE NoWorkflowConfig

RoutingResult(workflow_config, routing_decision, confidence) ==
    [workflow_config |-> workflow_config, routing_decision |-> routing_decision,
     confidence |-> confidence]

\* Decision resolving the next rule when the name of a rule is not available
Decision_FallThrough(config, ev) ==
    LET event_type == Lower(Get(ev, "eventType", PyStr("")).str)
        source == Lower(Get(ev, "source", PyStr("")).str)
        by_type == IF event_type # "" /\ event_type \in DOMAIN config.event_type_mappings
                   THEN get_workflow_config(config, config.event_type_mappings[event_type])
                   ELSE NoWorkflowConfig
        by_source == IF source # "" /\ source \in DOMAIN config.source_mappings
                     THEN get_workflow_config(config, config.source_mappings[source])
                     ELSE NoWorkflowConfig
        by_default == IF config.default_workflow \notin {None, ""}
                      THEN get_workflow_config(config, config.default_workflow)
                      ELSE NoWorkflowConfig
    IN IF by_type # NoWorkflowConfig
       THEN RoutingResult(by_type,
                <<"Routed by eventType", event_type, "to", by_type.workflow_name>>, "1.0")
       ELSE IF by_source # NoWorkflowConfig
       THEN RoutingResult(by_source,
                <<"Routed by source", source, "to", by_source.workflow_name>>, "0.8")
       ELSE IF by_default # NoWorkflowConfig
       THEN RoutingResult(by_default,
                <<"Routed to default workflow", by_default.workflow_name>>, "0.5")
       ELSE RoutingResult(NoWorkflowConfig,
                <<"No workflow found for eventType", event_type, "and source", source>>,
                "0.0")

\* EventRoutingService.route_event with a configuration: the router's choice
\* and the decision derived from it
Decision(config, ev) ==
    LET workflow_config == WorkflowRouter_route_event(config, ev)
        event_type == Lower(Get(ev, "eventType", PyStr("")).str)
        source == Lower(Get(ev, "source", PyStr("")).str)
    IN IF workflow_config # NoWorkflowConfig
       THEN IF event_type # "" /\ event_type \in DOMAIN config.event_type_mappings
            THEN RoutingResult(workflow_config,
                    <<"Routed by eventType", event_type, "to",
                      workflow_config.workflow_name>>, "1.0")
            ELSE IF source # "" /\ source \in DOMAIN config.source_mappings
            THEN RoutingResult(workflow_config,
                    <<"Routed by source", source, "to",
                      workflow_config.workflow_name>>, "0.8")
            ELSE IF config.default_workflow \notin {None, ""}
            THEN RoutingResult(workflow_config,
                    <<"Routed to default workflow", workflow_config.workflow_name>>, "0.5")
            ELSE RoutingResult(workflow_config,
                    <<"Routed to", workflow_config.workflow_name>>, "0.7")
       ELSE RoutingResult(NoWorkflowConfig,
                <<"No workflow found for eventType", event_type, "and source", source>>,
                "0.0")

\* EventRoutingService.route_event: the RoutingResult, or the AttributeError
\* of lower() on a value that is no string; confidence is 1.0 when the
\* constructor's default is taken
EventRoutingService_route_event(default, ev, custom) ==
    LET config == IF custom # NoConfig THEN custom ELSE default IN
    IF config = NoConfig
    THEN Returned(RoutingResult(NoWorkflowConfig,
                                <<"No routing configuration available">>, "1.0"))
    ELSE IF ~CanLower(ev)
    THEN AttributeError
    ELSE Returned(Decision(config, ev))

RoutingInit ==
    /\ event \in RawEvents
    /\ default_config \in {NoConfig, DEFAULT_ROUTING_CONFIG}
    /\ custom_config \in {NoConfig} \cup RoutingConfigs
    /\ r_pc = "start"
    /\ validation = NoResult
    /\ routing_result = NoResult
    /\ activity_result = NoResult
    /\ PIdle
    /\ SIdle
    /\ QIdle
    /\ CIdle
    /\ XIdle

\* OrchestratorDomainService(default_config).process_event_for_routing(event,
\* custom_config)
process_event_for_routing ==
    /\ r_pc = "start"
    /\ validation' = EventValidationResult(event)
    /\ routing_result' =
          IF validation'.is_valid
          THEN EventRoutingService_route_event(default_config,
                   validation'.normalized_event.dict, custom_config)
          ELSE NoResult
    /\ r_pc' = "process_event_for_routing"
    /\ UNCHANGED <<event, default_config, custom_config, activity_result>>
    /\ UNCHANGED <<pvars, svars, qvars, cvars, xvars>>

NoWorkflowConfigured(event_type, source) ==
    [kind |-> "raise", type |-> "ApplicationError",
     msg |-> "No workflow configured to handle event type ... from source ...",
     event_type |-> event_type, source |-> source, non_retryable |-> TRUE]

InvalidRoutingParameters ==
    [kind |-> "raise", type |-> "ApplicationError",
     msg |-> "Invalid routing parameters", non_retryable |-> TRUE]

RouteEventResult(workflow_config) ==
    [workflow_config |-> workflow_config,
     workflow_name |-> workflow_config.workflow_name,
     task_queue |-> workflow_config.task_queue,
     routed |-> TRUE]

\* RootOrchestratorActivities(default_config).route_event({"event": event,
\* "routing_config": custom_config})
\* what the activity returns or raises, for the configuration of the worker,
\* the event of the parameters and their routing_config
RouteEventOutcome(routing_config, ev, custom) ==
    IF ev.type # "dict"
    THEN InvalidRoutingParameters
    ELSE LET result == EventRoutingService_route_event(routing_config, ev.dict, custom)
         IN IF result.kind = "raise"
            THEN result
            ELSE IF result.value.workflow_config = NoWorkflowConfig
            THEN NoWorkflowConfigured(
                     Get(ev.dict, "eventType", PyStr("unknown")),
                     Get(ev.dict, "source", PyStr("unknown")))
            ELSE Returned(RouteEventResult(result.value.workflow_config))

route_event ==
    /\ r_pc = "start"
    /\ LET routing_config == IF default_config # NoConfig THEN default_config
                             ELSE DEFAULT_ROUTING_CONFIG
       IN /\ routing_result' =
                IF event.type # "dict" THEN NoResult
                ELSE EventRoutingService_route_event(routing_config, event.dict,
                                                     custom_config)
          /\ activity_result' = RouteEventOutcome(routing_config, event, custom_config)
    /\ r_pc' = "route_event"
    /\ UNCHANGED <<event, default_config, custom_config, validation>>
    /\ UNCHANGED <<pvars, svars, qvars, cvars, xvars>>

RoutingNext == process_event_for_routing \/ route_event

SpecRouting == RoutingInit /\ [][RoutingNext]_vars

(***************************************************************************)
(* Part 5 - DocumentProcessingActivities.chunk_text                        *)
(*                                                                         *)
(* The text is a sequence of characters, each named by its position.  The  *)
(* loop is followed one test and one body at a time.  The lists keep at    *)
(* most MaxChunks items and chunk_index counts up to MaxChunks: a call     *)
(* that returns makes at most max(1, len(text)) iterations, fewer than     *)
(* MaxChunks, so its lists are complete.                                   *)
(***************************************************************************)

MaxText == 25
MaxChunkSize == 10
MaxChunks == MaxText + 2

Min(a, b) == IF a <= b THEN a ELSE b

\* text[start:end] for 0 <= start
Slice(text, from, to) == SubSeq(text, from + 1, Min(to, Len(text)))

\* the chunk_input dicts: text_result with its success flag and its text,
\* input_data with chunk_size and chunk_overlap, valid for the dataclass or not
ChunkInputs ==
    { [text_result |-> [success |-> ok, text |-> [i \in 1..n |-> i]],
       input_data |-> [valid |-> valid, chunk_size |-> size, chunk_overlap |-> overlap]] :
        ok \in BOOLEAN, valid \in BOOLEAN, n \in 0..MaxText,
        size \in 1..MaxChunkSize, overlap \in 0..MaxChunkSize }

\* chunk_text is called with a chunk_overlap up to chunk_size
ChunkInit ==
    /\ chunk_input \in { c \in ChunkInputs :
                            c.input_data.chunk_overlap <= c.input_data.chunk_size }
    /\ c_pc = "start"
    /\ start = 0
    /\ chunk_index = 0
    /\ chunks = <<>>
    /\ chunk_metadata = <<>>
    /\ chunk_output = NoResult
    /\ PIdle
    /\ SIdle
    /\ QIdle
    /\ RIdle
    /\ XIdle

ChunkFailure(error) ==
    [success |-> FALSE, chunks |-> <<>>, chunk_metadata |-> <<>>, error |-> error]

ChunkSuccess(cs, md) ==
    [success |-> TRUE, chunks |-> cs, chunk_metadata |-> md, error |-> None]

\* DocumentProcessingDomainService.create_chunk_metadata: index and size
create_chunk_metadata(chunk, index) == [chunk_index |-> index, chunk_size |-> Len(chunk)]

\* list.append, the list kept up to MaxChunks items
append(list, item) == IF Len(list) < MaxChunks THEN Append(list, item) ELSE list

\* NextStart moving to the end of the chunk
NextStart_NoOverlap(end, chunk_overlap) == end

\* start = end - chunk_overlap
NextStart(end, chunk_overlap) == end - chunk_overlap

\* from the call to the loop, or to the return of a failure
chunk_text ==
    /\ c_pc = "start"
    /\ IF ~chunk_input.text_result.success
       THEN /\ chunk_output' = ChunkFailure("Text extraction failed")
            /\ c_pc' = "done"
       ELSE IF ~chunk_input.input_data.valid
       THEN /\ chunk_output' = ChunkFailure("TypeError")
            /\ c_pc' = "done"
       ELSE /\ chunk_output' = chunk_output
            /\ c_pc' = "while"
    /\ start' = 0
    /\ chunk_index' = 0
    /\ chunks' = <<>>
    /\ chunk_metadata' = <<>>
    /\ UNCHANGED chunk_input
    /\ UNCHANGED <<pvars, svars, qvars, rvars, xvars>>

\* while start < len(text): into the body, or past the loop to the return
WhileTest ==
    /\ c_pc = "while"
    /\ IF start < Len(chunk_input.text_result.text)
       THEN /\ c_pc' = "body"
            /\ chunk_output' = chunk_output
       ELSE /\ c_pc' = "done"
            /\ chunk_output' = ChunkSuccess(chunks, chunk_metadata)
    /\ UNCHANGED <<chunk_input, start, chunk_index, chunks, chunk_metadata>>
    /\ UNCHANGED <<pvars, svars, qvars, rvars, xvars>>

\* one body of the loop, with its break to the return
WhileBody ==
    /\ c_pc = "body"
    /\ LET text == chunk_input.text_result.text
           chunk_size == chunk_input.input_data.chunk_size
           chunk_overlap == chunk_input.input_data.chunk_overlap
           end == start + chunk_size
           chunk == Slice(text, start, end)
       IN /\ chunks' = append(chunks, chunk)
          /\ chunk_metadata' =
                append(chunk_metadata, create_chunk_metadata(chunk, chunk_index))
          /\ start' = NextStart(end, chunk_overlap)
          /\ chunk_index' = IF chunk_index < MaxChunks THEN chunk_index + 1 ELSE chunk_index
          /\ IF start' >= Len(text) - chunk_overlap
             THEN /\ c_pc' = "done"
                  /\ chunk_output' = ChunkSuccess(chunks', chunk_metadata')
             ELSE /\ c_pc' = "while"
                  /\ chunk_output' = chunk_output
    /\ UNCHANGED chunk_input
    /\ UNCHANGED <<pvars, svars, qvars, rvars, xvars>>

ChunkNext == chunk_text \/ WhileTest \/ WhileBody

\* the activity, once called, keeps running
SpecChunking == ChunkInit /\ [][ChunkNext]_vars /\ WF_vars(ChunkNext)

(***************************************************************************)
(* Part 6 - RootOrchestratorWorkflow                                       *)
(*                                                                         *)
(* One run with its two signals.  The two activities are those of          *)
(* RootOrchestratorActivities on a worker built without a routing          *)
(* configuration, called with the default retry policy; the child may end  *)
(* in failure, which run sees as an exception that is no ApplicationError. *)
(***************************************************************************)

MaxRootSignals == 2

\* the string run has not returned yet
NoReturnYet == <<"open">>

\* a configuration dict that EventRoutingConfig(**dict) rejects
InvalidConfiguration == [kind |-> "invalid"]

\* a configuration dict with an incident workflow, a workflow the
\* orchestrator does not know, and no default workflow
IncidentConfiguration ==
    [event_type_mappings |->
        [k \in {"incident", "test-event", "document-added"} |->
            CASE k = "incident" -> "incident_workflow"
              [] k = "test-event" -> "wf_a"
              [] k = "document-added" -> "document_processing_workflow"],
     source_mappings |-> [k \in {"monitoring"} |-> "incident_workflow"],
     default_workflow |-> None,
     workflows |->
        [k \in {"incident_workflow", "wf_a", "document_processing_workflow"} |->
            CASE k = "incident_workflow" ->
                     WorkflowConfig(k, "IncidentWorkflow", "incident-queue", TRUE)
              [] k = "wf_a" -> WorkflowConfig(k, "Workflow", "a-queue", TRUE)
              [] k = "document_processing_workflow" ->
                     WorkflowConfig(k, "DocumentProcessingWorkflow",
                                    "document_processing-queue", TRUE)]]

Configurations == {NoConfig, IncidentConfiguration, InvalidConfiguration}

\* the payloads a trigger signal carries in the model
TriggerPayloads ==
    { PyDict([k \in {"eventType", "source"} |->
                 IF k = "eventType" THEN PyStr(et) ELSE PyStr("monitoring")]) :
        et \in {"incident", " test-event "} }
    \cup {PyNone}

\* bool(x) of a payload
Truthy(x) ==
    CASE x.type = "NoneType" -> FALSE
      [] x.type = "dict" -> DOMAIN x.dict # {}
      [] x.type = "str" -> x.str # ""
      [] OTHER -> TRUE

\* bool(x) of a configuration
HasConfiguration(c) == c # NoConfig

RootInit ==
    /\ root_input \in [event_payload : RawEvents, configuration : Configurations]
    /\ self_event_payload = PyNone
    /\ self_configuration = NoConfig
    /\ event_payload = PyNone
    /\ o_pc = "not_started"
    /\ o_calls = <<>>
    /\ o_result = NoReturnYet
    /\ o_signals = 0
    /\ PIdle
    /\ SIdle
    /\ QIdle
    /\ RIdle
    /\ CIdle
    /\ KIdle
    /\ DIdle
    /\ GIdle

\* ValidateEventResult reporting every event valid
ValidateEventResult_AlwaysValid(payload) == [valid |-> TRUE, errors |-> <<>>]

\* the validate_event activity on {"event": payload}, as the workflow reads
\* its result
ValidateEventResult(payload) ==
    IF payload.type # "dict"
    THEN [valid |-> FALSE, errors |-> <<"Invalid parameters">>]
    ELSE [valid |-> EventValidationResult(payload).is_valid,
          errors |-> EventValidationResult(payload).errors]

InvalidRoutingConfiguration ==
    [kind |-> "raise", type |-> "ApplicationError",
     msg |-> "Invalid routing configuration", non_retryable |-> TRUE]

\* the route_event activity on routing_params
RouteEventActivity(routing_params) ==
    IF routing_params.event.type # "dict"
    THEN InvalidRoutingParameters
    ELSE IF routing_params.routing_config = InvalidConfiguration
    THEN InvalidRoutingConfiguration
    ELSE RouteEventOutcome(DEFAULT_ROUTING_CONFIG, routing_params.event,
                           routing_params.routing_config)

\* _prepare_child_input
prepare_child_input(workflow_name, payload) ==
    CASE workflow_name = "incident_workflow" ->
            [incident_id |-> Get(payload, "incident_id", PyNone),
             source |-> Get(payload, "source", PyNone),
             severity |-> Get(payload, "severity", PyStr("medium")),
             message |-> Get(payload, "message", PyStr("System event detected")),
             event_type |-> Get(payload, "eventType", PyNone),
             timestamp |-> Get(payload, "timestamp", PyNone),
             additional_context |-> payload]
      [] workflow_name = "document_processing_workflow" ->
            [document_uri |-> Get(payload, "documentUri",
                                  Get(payload, "source_uri", PyNone)),
             bucket |-> Get(payload, "bucket", PyNone),
             key |-> Get(payload, "key", PyNone),
             event |-> payload,
             eventType |-> Get(payload, "eventType", PyNone),
             source |-> Get(payload, "source", PyNone)]
      [] workflow_name = "data_processing_workflow" ->
            [data_source |-> Get(payload, "dataSource", Get(payload, "source", PyNone)),
             processing_type |-> Get(payload, "processingType", PyStr("default")),
             event |-> payload,
             eventType |-> Get(payload, "eventType", PyNone),
             source |-> Get(payload, "source", PyNone)]
      [] OTHER -> payload

\* the dict _execute_child_workflow returns without starting a workflow
MockResult(workflow_name, child_input) ==
    [status |-> "completed", workflow |-> workflow_name, input |-> child_input]

\* the names _execute_child_workflow starts a child workflow for
StartsChild(workflow_name) == workflow_name = "incident_workflow"

Completed(workflow_name, child_result) ==
    <<"RootOrchestrator completed. Child workflow result", workflow_name, child_result>>
Failed(e) == <<"RootOrchestrator failed", e>>
FailedUnexpected(e) == <<"RootOrchestrator failed with unexpected error", e>>

ValidateEventCall(payload) == [activity |-> "validate_event", event |-> payload]
RouteEventCall(payload, configuration) ==
    [activity |-> "route_event", event |-> payload, routing_config |-> configuration]
ChildCall(workflow_name, child_input, task_queue) ==
    [child_workflow |-> "IncidentWorkflow", id |-> <<workflow_name, "uuid4">>,
     args |-> <<child_input>>, task_queue |-> task_queue]

\* from the end of the wait to the await of validate_event
BeginProcessing(payload) ==
    /\ event_payload' = payload
    /\ o_calls' = Append(o_calls, ValidateEventCall(payload))
    /\ o_pc' = "validate_event"

\* run, up to its first await
RootStart ==
    /\ o_pc = "not_started"
    /\ self_configuration' = IF HasConfiguration(root_input.configuration)
                             THEN root_input.configuration ELSE self_configuration
    /\ self_event_payload' = IF Truthy(root_input.event_payload)
                             THEN root_input.event_payload ELSE self_event_payload
    /\ IF self_event_payload' # PyNone
       THEN BeginProcessing(self_event_payload')
       ELSE /\ o_pc' = "waiting"
            /\ UNCHANGED <<event_payload, o_calls>>
    /\ UNCHANGED <<root_input, o_result, o_signals>>
    /\ UNCHANGED <<pvars, svars, qvars, rvars, cvars, kvars, dvars, gvars>>

\* wait_condition returns: a payload is there
RootWaitReturns ==
    /\ o_pc = "waiting"
    /\ self_event_payload # PyNone
    /\ BeginProcessing(self_event_payload)
    /\ UNCHANGED <<root_input, self_event_payload, self_configuration, o_result,
                   o_signals>>
    /\ UNCHANGED <<pvars, svars, qvars, rvars, cvars, kvars, dvars, gvars>>

\* the trigger signal
trigger(payload) ==
    /\ o_pc # "done"
    /\ o_signals < MaxRootSignals
    /\ o_signals' = o_signals + 1
    /\ self_event_payload' = payload
    /\ UNCHANGED <<root_input, self_configuration, event_payload, o_pc, o_calls,
                   o_result>>
    /\ UNCHANGED <<pvars, svars, qvars, rvars, cvars, kvars, dvars, gvars>>

\* the update_configuration signal
update_configuration(config) ==
    /\ o_pc # "done"
    /\ o_signals < MaxRootSignals
    /\ o_signals' = o_signals + 1
    /\ self_configuration' = config
    /\ UNCHANGED <<root_input, self_event_payload, event_payload, o_pc, o_calls,
                   o_result>>
    /\ UNCHANGED <<pvars, svars, qvars, rvars, cvars, kvars, dvars, gvars>>

\* run ends with the string it returns
RootReturn(result) ==
    /\ o_result' = result
    /\ o_pc' = "done"

\* validate_event came back: the failure, or the await of route_event
ValidateReturns ==
    /\ o_pc = "validate_event"
    /\ LET validated == ValidateEventResult(event_payload) IN
       IF ~validated.valid
       THEN /\ RootReturn(Failed(<<"Event validation failed", validated.errors>>))
            /\ UNCHANGED o_calls
       ELSE /\ o_calls' = Append(o_calls, RouteEventCall(event_payload, self_configuration))
            /\ o_pc' = "route_event"
            /\ UNCHANGED o_result
    /\ UNCHANGED <<root_input, self_event_payload, self_configuration, event_payload,
                   o_signals>>
    /\ UNCHANGED <<pvars, svars, qvars, rvars, cvars, kvars, dvars, gvars>>

\* an error of the activity that is no non-retryable ApplicationError: the
\* activity is attempted again, without end for an error it raises every time
Retried(outcome) == outcome.kind = "raise" /\ outcome.type # "ApplicationError"

\* route_event came back: its error, the mock result, or the await of the child
RouteReturns ==
    /\ o_pc = "route_event"
    /\ ~Retried(RouteEventActivity(o_calls[Len(o_calls)]))
    /\ LET outcome == RouteEventActivity(o_calls[Len(o_calls)]) IN
       IF outcome.kind = "raise"
       THEN /\ RootReturn(FailedUnexpected(outcome.msg))
            /\ UNCHANGED o_calls
       ELSE LET routing == outcome.value
                workflow_name == routing.workflow_name
                child_input == prepare_child_input(workflow_name, event_payload.dict)
            IN IF ~routing.routed
               THEN /\ RootReturn(Failed("Event routing failed"))
                    /\ UNCHANGED o_calls
               ELSE IF StartsChild(workflow_name)
               THEN /\ o_calls' = Append(o_calls,
                           ChildCall(workflow_name, child_input, routing.task_queue))
                    /\ o_pc' = "child"
                    /\ UNCHANGED o_result
               ELSE /\ RootReturn(Completed(workflow_name,
                                            MockResult(workflow_name, child_input)))
                    /\ UNCHANGED o_calls
    /\ UNCHANGED <<root_input, self_event_payload, self_configuration, event_payload,
                   o_signals>>
    /\ UNCHANGED <<pvars, svars, qvars, rvars, cvars, kvars, dvars, gvars>>

\* the child workflow completed
RootChildReturns ==
    /\ o_pc = "child"
    /\ RootReturn(Completed("incident_workflow", "IncidentWorkflow result"))
    /\ UNCHANGED <<root_input, self_event_payload, self_configuration, event_payload,
                   o_calls, o_signals>>
    /\ UNCHANGED <<pvars, svars, qvars, rvars, cvars, kvars, dvars, gvars>>

\* the child workflow failed: the ChildWorkflowError is caught by except Exception
RootChildFails ==
    /\ o_pc = "child"
    /\ RootReturn(FailedUnexpected("Child Workflow execution failed"))
    /\ UNCHANGED <<root_input, self_event_payload, self_configuration, event_payload,
                   o_calls, o_signals>>
    /\ UNCHANGED <<pvars, svars, qvars, rvars, cvars, kvars, dvars, gvars>>

RootNext ==
    \/ RootStart
    \/ RootWaitReturns
    \/ \E payload \in TriggerPayloads : trigger(payload)
    \/ \E config \in Configurations : update_configuration(config)
    \/ ValidateReturns
    \/ RouteReturns
    \/ RootChildReturns
    \/ RootChildFails

SpecRoot == RootInit /\ [][RootNext]_vars

(***************************************************************************)
(* Part 7 - CoordinatorActivities.choose_workflow                          *)
(*                                                                         *)
(* available_workflows is only tested for membership: it is a set here.    *)
(***************************************************************************)

ChooseEventTypes ==
    {"incident", "Incident", "INCIDENT", "incidents", "unknown_event", "document-added", ""}
AvailableNames ==
    {"incident_workflow", "Incident_Workflow", "other_workflow",
     "document_processing_workflow"}

ChooseInit ==
    /\ choose_params \in [event_type : ChooseEventTypes,
                          available_workflows : SUBSET AvailableNames]
    /\ chosen = NoResult
    /\ PIdle
    /\ SIdle
    /\ QIdle
    /\ RIdle
    /\ CIdle
    /\ OIdle
    /\ DIdle
    /\ GIdle

ChooseWorkflowResult(workflow_name) == Returned([workflow_name |-> workflow_name])

NoAvailableWorkflow ==
    [kind |-> "raise", type |-> "ApplicationError",
     msg |-> "No available workflow for this event type.", non_retryable |-> TRUE]

\* ChooseOutcome comparing event_type as it was given
ChooseOutcome_CaseSensitive(p) ==
    IF p.event_type = "incident" /\ "incident_workflow" \in p.available_workflows
    THEN ChooseWorkflowResult("incident_workflow")
    ELSE NoAvailableWorkflow

\* what choose_workflow returns or raises
ChooseOutcome(p) ==
    LET event_type == Lower(p.event_type) IN
    IF event_type = "incident" /\ "incident_workflow" \in p.available_workflows
    THEN ChooseWorkflowResult("incident_workflow")
    ELSE NoAvailableWorkflow

choose_workflow ==
    /\ chosen = NoResult
    /\ chosen' = ChooseOutcome(choose_params)
    /\ UNCHANGED choose_params
    /\ UNCHANGED <<pvars, svars, qvars, rvars, cvars, ovars, dvars, gvars>>

SpecChoose == ChooseInit /\ [][choose_workflow]_vars

(***************************************************************************)
(* Part 8 - DocumentProcessingActivities.validate_document                 *)
(*                                                                         *)
(* A URI is one of the strings of ParsedUris, with what urlparse and       *)
(* os.path.isabs give for it.  An optional field is None or a string.      *)
(***************************************************************************)

\* urlparse(uri).scheme, .netloc and .path, and os.path.isabs(uri)
Parsed(scheme, netloc, path, isabs) ==
    [scheme |-> scheme, netloc |-> netloc, path |-> path, isabs |-> isabs]

ParsedUris ==
    [uri \in {"", "doc.pdf", "/tmp/doc.pdf", "s3://my-bucket/test.pdf", "s3://my-bucket",
              "s3:///test.pdf", "http://invalid-uri",
              "https://account.blob.core.windows.net/container/blob.pdf",
              "https://example.com/doc.pdf", "ftp://example.com/doc.pdf"} |->
        CASE uri = "" -> Parsed("", "", "", FALSE)
          [] uri = "doc.pdf" -> Parsed("", "", "doc.pdf", FALSE)
          [] uri = "/tmp/doc.pdf" -> Parsed("", "", "/tmp/doc.pdf", TRUE)
          [] uri = "s3://my-bucket/test.pdf" -> Parsed("s3", "my-bucket", "/test.pdf", FALSE)
          [] uri = "s3://my-bucket" -> Parsed("s3", "my-bucket", "", FALSE)
          [] uri = "s3:///test.pdf" -> Parsed("s3", "", "/test.pdf", FALSE)
          [] uri = "http://invalid-uri" -> Parsed("http", "invalid-uri", "", FALSE)
          [] uri = "https://account.blob.core.windows.net/container/blob.pdf" ->
                Parsed("https", "account.blob.core.windows.net", "/container/blob.pdf",
                       FALSE)
          [] uri = "https://example.com/doc.pdf" ->
                Parsed("https", "example.com", "/doc.pdf", FALSE)
          [] uri = "ftp://example.com/doc.pdf" ->
                Parsed("ftp", "example.com", "/doc.pdf", FALSE)]

urlparse(uri) == ParsedUris[uri]

\* "blob.core.windows.net" in netloc
HasBlobDomain(netloc) == netloc = "account.blob.core.windows.net"

DocumentSources == {"chat", "s3", "azure-blob", "webhook", "sharepoint", ""}

DocumentRequests ==
    [document_uri : DOMAIN ParsedUris, source : DocumentSources,
     event_type : {"ObjectCreated", ""},
     bucket : {None, "my-bucket"}, key : {None, "test.pdf"},
     container : {None, "container"}, blob_name : {None, "blob.pdf"}]

DocumentInit ==
    /\ document_request \in DocumentRequests
    /\ document_validation = NoResult
    /\ PIdle
    /\ SIdle
    /\ QIdle
    /\ RIdle
    /\ CIdle
    /\ OIdle
    /\ KIdle
    /\ GIdle

\* not x, for a string or None
Falsy(x) == x \in {None, ""}

\* the errors list of _validate_uri
UriErrors(uri, source) ==
    LET parsed == urlparse(uri) IN
    CASE source = "chat" ->
            IF ~parsed.isabs THEN <<"Chat upload URI must be absolute path">> ELSE <<>>
      [] source = "s3" ->
            (IF parsed.scheme # "s3" THEN <<"S3 URI must use s3:// scheme">> ELSE <<>>)
            \o (IF parsed.netloc = "" THEN <<"S3 URI must specify bucket">> ELSE <<>>)
            \o (IF parsed.path = "" \/ parsed.path = "/"
                THEN <<"S3 URI must specify key">> ELSE <<>>)
      [] source = "azure-blob" ->
            (IF parsed.scheme # "https"
             THEN <<"Azure Blob URI must use https:// scheme">> ELSE <<>>)
            \o (IF ~HasBlobDomain(parsed.netloc)
                THEN <<"Azure Blob URI must use blob.core.windows.net domain">>
                ELSE <<>>)
      [] source = "webhook" ->
            IF parsed.scheme \notin {"http", "https"}
            THEN <<"Webhook URI must use http:// or https:// scheme">> ELSE <<>>
      [] OTHER -> <<>>

\* the errors list of _validate_source_fields
SourceFieldErrors(d) ==
    CASE d.source = "s3" ->
            (IF Falsy(d.bucket) THEN <<"bucket is required for S3 source">> ELSE <<>>)
            \o (IF Falsy(d.key) THEN <<"key is required for S3 source">> ELSE <<>>)
      [] d.source = "azure-blob" ->
            (IF Falsy(d.container)
             THEN <<"container is required for Azure Blob source">> ELSE <<>>)
            \o (IF Falsy(d.blob_name)
                THEN <<"blob_name is required for Azure Blob source">> ELSE <<>>)
      [] OTHER -> <<>>

\* the document_info of _validate_uri
DocumentInfo(uri, source) ==
    CASE source = "chat" -> [filename |-> uri]
      [] source = "s3" -> [bucket |-> urlparse(uri).netloc, key |-> urlparse(uri).path]
      [] source = "azure-blob" -> [blob_url |-> uri]
      [] OTHER -> <<>>

\* the errors list of validate_input
validate_input(d) ==
    (IF Falsy(d.document_uri) THEN <<"document_uri is required">> ELSE <<>>)
    \o (IF Falsy(d.source) THEN <<"source is required">> ELSE <<>>)
    \o (IF Falsy(d.event_type) THEN <<"event_type is required">> ELSE <<>>)
    \o UriErrors(d.document_uri, d.source)
    \o SourceFieldErrors(d)

validate_document ==
    /\ document_validation = NoResult
    /\ document_validation' =
          [success |-> validate_input(document_request) = <<>>,
           errors |-> validate_input(document_request),
           document_info |-> DocumentInfo(document_request.document_uri,
                                          document_request.source)]
    /\ UNCHANGED document_request
    /\ UNCHANGED <<pvars, svars, qvars, rvars, cvars, ovars, kvars, gvars>>

SpecDocument == DocumentInit /\ [][validate_document]_vars

(***************************************************************************)
(* Part 9 - extract_text, chunk_text, generate_embeddings and store_chunks *)
(* in a row                                                                *)
(*                                                                         *)
(* Each stage is called with the dict the stage before returned, as run    *)
(* passes them on; chunk_text is the call of Part 5.  The text of          *)
(* extract_text is a stub in the source: here it has any length up to      *)
(* MaxStageText.  store_chunks is called up to MaxStoreCalls times with    *)
(* the same argument, in which a result may stand replaced by a failure.   *)
(* uuid.uuid4().hex[:8] is one of UuidPrefixes, chosen at each call.       *)
(***************************************************************************)

MaxStageText == 5
MaxStageChunk == 3
MaxStoreCalls == 2

UuidPrefixes == {"1b9d6bcd", "6ec0bd7f"}

\* download_result dicts: a success, a success without content type, a failure
DownloadResults ==
    {[success |-> TRUE, content_type |-> "application/pdf", content_size |-> 1024,
      error |-> None],
     [success |-> TRUE, content_type |-> None, content_size |-> 1024, error |-> None],
     [success |-> FALSE, content_type |-> None, content_size |-> 0,
      error |-> "Document not found"]}

\* input_data: valid for the dataclass or not, with its chunking configuration
StageRequests ==
    { [valid |-> valid, source |-> "s3", event_type |-> "ObjectCreated",
       chunk_size |-> size, chunk_overlap |-> overlap] :
        valid \in BOOLEAN, size \in 1..MaxStageChunk, overlap \in 0..MaxStageChunk }

StageInit ==
    /\ extract_input \in { x \in [download_result : DownloadResults,
                                  input_data : StageRequests] :
                             x.input_data.chunk_overlap <= x.input_data.chunk_size }
    /\ g_pc = "start"
    /\ embedding_output = NoResult
    /\ storage_input = NoResult
    /\ storage_outputs = <<>>
    /\ PIdle
    /\ SIdle
    /\ QIdle
    /\ RIdle
    /\ CIdle
    /\ OIdle
    /\ KIdle
    /\ DIdle

ExtractFailure(error) ==
    [success |-> FALSE, text |-> None, metadata |-> <<>>, error |-> error]

ExtractSuccess(text, download) ==
    [success |-> TRUE, text |-> text,
     metadata |-> [extraction_method |-> "simulated",
                   content_type |-> download.content_type,
                   original_size |-> download.content_size,
                   extracted_length |-> Len(text)],
     error |-> None]

\* extract_text for a text of n characters; chunk_text is called with its result
extract_text ==
    /\ g_pc = "start"
    /\ \E n \in 0..MaxStageText :
          LET download == extract_input.download_result
              result == IF ~download.success
                        THEN ExtractFailure("Document download failed")
                        ELSE IF download.content_type = None
                        THEN ExtractFailure("AttributeError")
                        ELSE ExtractSuccess([i \in 1..n |-> i], download)
          IN chunk_input' = [text_result |-> result,
                             input_data |-> extract_input.input_data]
    /\ c_pc' = "start"
    /\ g_pc' = "chunk"
    /\ UNCHANGED <<start, chunk_index, chunks, chunk_metadata, chunk_output>>
    /\ UNCHANGED <<extract_input, embedding_output, storage_input, storage_outputs>>
    /\ UNCHANGED <<pvars, svars, qvars, rvars, ovars, kvars, dvars>>

EmbeddingFailure(error) == [success |-> FALSE, embeddings |-> <<>>, error |-> error]

\* the vector of a chunk: embedding_dim numbers fixed by the md5 of the chunk
Embedding(chunk) == [md5_of |-> chunk, length |-> 1536]

\* EmbeddingsOf leaving out the last chunk
EmbeddingsOf_DropLast(cs) == [i \in 1..(Len(cs) - 1) |-> Embedding(cs[i])]

\* the embeddings list: one vector for each chunk, in order
EmbeddingsOf(cs) == [i \in 1..Len(cs) |-> Embedding(cs[i])]

\* what generate_embeddings returns
GenerateEmbeddings(embedding_input) ==
    IF ~embedding_input.chunk_result.success
    THEN EmbeddingFailure("Text chunking failed")
    ELSE IF ~embedding_input.input_data.valid
    THEN EmbeddingFailure("TypeError")
    ELSE [success |-> TRUE,
          embeddings |-> EmbeddingsOf(embedding_input.chunk_result.chunks),
          embedding_model |-> "text-embedding-3-small",
          embedding_dimensions |-> 1536,
          error |-> None]

\* generate_embeddings, called with the result of chunk_text
generate_embeddings ==
    /\ g_pc = "chunk"
    /\ c_pc = "done"
    /\ embedding_output' = GenerateEmbeddings([chunk_result |-> chunk_output,
                                               input_data |-> extract_input.input_data])
    /\ g_pc' = "embed"
    /\ UNCHANGED <<extract_input, storage_input, storage_outputs>>
    /\ UNCHANGED <<pvars, svars, qvars, rvars, cvars, ovars, kvars, dvars>>

StorageFailure(error) == [success |-> FALSE, stored_ids |-> <<>>, error |-> error]

RECURSIVE SumLen(_)
\* sum(len(chunk) for chunk in chunks)
SumLen(cs) == IF cs = <<>> THEN 0 ELSE Len(cs[1]) + SumLen(SubSeq(cs, 2, Len(cs)))

\* calculate_processing_stats; the average is the fraction total over count
calculate_processing_stats(cs, embeddings) ==
    [total_chunks |-> Len(cs),
     total_characters |-> SumLen(cs),
     embedding_dimensions |-> IF embeddings # <<>> THEN embeddings[1].length ELSE 0,
     average_chunk_size |-> IF cs # <<>> THEN <<SumLen(cs), Len(cs)>> ELSE <<0, 1>>]

\* PreviousStepsFailed looking at the chunk result only
PreviousStepsFailed_ChunkOnly(chunks_in, embeddings_in) == ~chunks_in.success

\* the test at the head of store_chunks
PreviousStepsFailed(chunks_in, embeddings_in) ==
    ~chunks_in.success \/ ~embeddings_in.success

\* what store_chunks returns when uuid4 gives uuids[i] for the i-th item
StoreChunks(input, uuids) ==
    IF PreviousStepsFailed(input.chunk_result, input.embedding_result)
    THEN StorageFailure("Previous processing steps failed")
    ELSE IF ~input.input_data.valid
    THEN StorageFailure("TypeError")
    ELSE LET zipped == Min(Len(input.chunk_result.chunks),
                           Min(Len(input.embedding_result.embeddings),
                               Len(input.chunk_result.chunk_metadata)))
         IN [success |-> TRUE,
             stored_ids |-> [i \in 1..zipped |->
                                <<input.input_data.source, input.input_data.event_type,
                                  uuids[i], i - 1>>],
             storage_stats |-> calculate_processing_stats(
                                   input.chunk_result.chunks,
                                   input.embedding_result.embeddings),
             index_name |-> "default-documents",
             error |-> None]

\* the arguments of store_chunks: the results of the two stages before, each
\* as it is or replaced by a failure
StorageInputs ==
    [chunk_result : {chunk_output, ChunkFailure("Text extraction failed")},
     embedding_result : {embedding_output, EmbeddingFailure("Text chunking failed")},
     input_data : {extract_input.input_data}]

\* one call of store_chunks: the first chooses the argument, the later ones
\* are called with the same
store_chunks ==
    /\ g_pc \in {"embed", "store"}
    /\ Len(storage_outputs) < MaxStoreCalls
    /\ storage_input' \in IF g_pc = "embed" THEN StorageInputs ELSE {storage_input}
    /\ \E uuids \in [1..Len(storage_input'.chunk_result.chunks) -> UuidPrefixes] :
          storage_outputs' = Append(storage_outputs, StoreChunks(storage_input', uuids))
    /\ g_pc' = "store"
    /\ UNCHANGED <<extract_input, embedding_output>>
    /\ UNCHANGED <<pvars, svars, qvars, rvars, cvars, ovars, kvars, dvars>>

StageNext ==
    \/ extract_text
    \/ chunk_text
    \/ WhileTest
    \/ WhileBody
    \/ generate_embeddings
    \/ store_chunks

SpecStages == StageInit /\ [][StageNext]_vars

(***************************************************************************)
(* Properties of DocumentProcessingWorkflow (checked under SpecPipeline)   *)
(***************************************************************************)

StageResults == <<validation_result, download_result, text_result, chunk_result,
                  embedding_result, storage_result>>
StepNames == <<"validation", "download", "text_extraction", "chunking", "embedding",
               "storage">>
ActivityNames == <<"validate_document", "download_document", "extract_text",
                   "chunk_text", "generate_embeddings", "store_chunks">>

Reported(k) == StageResults[k] # NoResult
ReportsFailure(k) == Reported(k) /\ ~StageResults[k].success
StageError(k) == IF k = 1 THEN StageResults[k].errors ELSE StageResults[k].error
IsSuccess(r) == "success" \in DOMAIN r /\ r.success
IsFailure(r) == "success" \in DOMAIN r /\ ~r.success

\* C1: when stage k is the first whose result reports failure, run has
\* returned success=false with step naming stage k, that stage's error and the
\* request's document_uri and source, and exactly the stages 1..k were invoked,
\* in order: no stage after k.
C1_ShortCircuit ==
    \A k \in 1..6 :
        ReportsFailure(k) =>
            /\ p_pc = "done"
            /\ p_result = [success      |-> FALSE,
                           step         |-> StepNames[k],
                           error        |-> StageError(k),
                           document_uri |-> input_data["document_uri"],
                           source       |-> input_data["source"]]
            /\ Len(calls) = k
            /\ \A i \in 1..k : calls[i].activity = ActivityNames[i]
            /\ \A j \in (k + 1)..6 : ~Reported(j)

\* the chunk stage reported failure after three successful stages
C1_Witness == ReportsFailure(4) /\ Len(calls) = 4

\* C2: an exception raised by the conversion of the request or by a stage
\* invocation ends run with the structured result success=false,
\* step='workflow_execution' carrying the exception text; and every finished
\* run returned exactly one of: success, a named failing stage,
\* workflow_execution.
C2_NeverRaises ==
    /\ p_exc # None =>
        /\ p_pc = "done"
        /\ p_result = [success      |-> FALSE,
                       step         |-> "workflow_execution",
                       error        |-> p_exc,
                       document_uri |-> Get(input_data, "document_uri", "unknown"),
                       source       |-> Get(input_data, "source", "unknown")]
    /\ p_pc = "done" =>
        \/ /\ IsSuccess(p_result)
           /\ "step" \notin DOMAIN p_result
        \/ /\ IsFailure(p_result)
           /\ \E k \in 1..6 : p_result.step = StepNames[k] /\ ReportsFailure(k)
           /\ p_exc = None
        \/ /\ IsFailure(p_result)
           /\ p_result.step = "workflow_execution"
           /\ p_exc # None

\* the extract stage raised
C2_Witness == p_exc # None /\ Len(calls) = 3 /\ p_pc = "done"

\* C3: a successful run made exactly six calls, validate, download, extract,
\* chunk, embed, store, once each and in this order; extract got the download
\* result, chunk the extract result, embed the chunk result, store the chunk
\* and the embedding result, and each of them the request as it was given.
C3_DataFlow ==
    IsSuccess(p_result) =>
        calls = << [activity |-> "validate_document", arg |-> input_data],
                   [activity |-> "download_document", arg |-> input_data],
                   [activity |-> "extract_text",
                    arg |-> [download_result |-> download_result,
                             input_data |-> input_data]],
                   [activity |-> "chunk_text",
                    arg |-> [text_result |-> text_result,
                             input_data |-> input_data]],
                   [activity |-> "generate_embeddings",
                    arg |-> [chunk_result |-> chunk_result,
                             input_data |-> input_data]],
                   [activity |-> "store_chunks",
                    arg |-> [chunk_result |-> chunk_result,
                             embedding_result |-> embedding_result,
                             input_data |-> input_data]] >>

\* a successful run over two chunks and one embedding
C3_Witness ==
    /\ IsSuccess(p_result)
    /\ Len(chunk_result.chunks) = 2
    /\ Len(embedding_result.embeddings) = 1

\* C4: a finished run of a request carrying document_uri, source and
\* event_type, whatever else it carries, in which no stage invocation reported
\* failure or raised, returned success=true with the request's source and
\* event_type and a processing summary.
C4_ExtraFieldsAccepted ==
    ( /\ p_pc = "done"
      /\ DocumentProcessingInputRequired \subseteq DOMAIN input_data
      /\ \A k \in 1..6 : ~ReportsFailure(k)
      /\ (p_exc = None \/ calls = <<>>) )
    => /\ IsSuccess(p_result)
       /\ p_result.source = input_data["source"]
       /\ p_result.event_type = input_data["event_type"]
       /\ "processing_summary" \in DOMAIN p_result

(***************************************************************************)
(* Properties of ChatSessionWorkflow (checked under SpecSession)           *)
(***************************************************************************)

Active == HasState /\ state.is_active
Inactive == HasState /\ ~state.is_active
InProcessing == s_pc \in {"analysis", "child", "ack"}
IsPrefix(s, t) == Len(s) <= Len(t) /\ s = SubSeq(t, 1, Len(s))
Last(s) == s[Len(s)]

\* a signal is delivered in this step
SignalDelivered ==
    \/ n_messages' # n_messages
    \/ n_updates' # n_updates
    \/ n_triggers' # n_triggers
    \/ (Active /\ ~state'.is_active)

\* C5: messages are dequeued in the order they were enqueued and each once
\* (the dequeued messages are the first messages of the history, the queue
\* holds the rest), and a message is dequeued only when the processing of
\* every message dequeued before it has returned.
C5_Fifo ==
    /\ [](/\ IsPrefix(dequeued, message_history)
          /\ ai_processing_queue =
                SubSeq(message_history, Len(dequeued) + 1, Len(message_history))
          /\ completed <= Len(dequeued)
          /\ Len(dequeued) <= completed + 1)
    /\ [][dequeued' # dequeued =>
            /\ completed' = Len(dequeued)
            /\ dequeued' = Append(dequeued, Head(ai_processing_queue))]_vars

\* two different messages were received before the first was dequeued, and
\* both have been processed
C5_Witness ==
    /\ Len(dequeued) = 2
    /\ completed = 2
    /\ dequeued[1] # dequeued[2]

\* C6: once end_session has been signalled, isActive of the session is false
\* (and therefore never true again).
C6_TerminalInvariant == (end_signalled /\ HasState) => ~state.is_active

\* C7: once isActive is false no message is dequeued any more - the messages
\* in the queue stay there - while the message that was already dequeued is
\* processed to the end: when run returns, the processing of every dequeued
\* message has returned.
C7_EndDropsQueue ==
    /\ [][Inactive =>
            /\ dequeued' = dequeued
            /\ IsPrefix(ai_processing_queue, ai_processing_queue')
            /\ (InProcessing => s_pc' # "waiting")]_vars
    /\ []((s_pc = "done" /\ s_result[1] \in {"completed", "failed"}) =>
            completed = Len(dequeued))

\* end_session arrived while a message was being processed and another one
\* was queued; the processing has gone on to the acknowledgment
C7_Witness ==
    /\ s_pc = "ack"
    /\ Inactive
    /\ ai_processing_queue # <<>>
    /\ ended_at = Len(message_history)

\* C8 as stated: once isActive is false, no step changes messageCount,
\* lastActivity, userId, userType, the message history or the
\* triggered-workflow log.
C8_ReadOnlyAfterEnd ==
    [][Inactive => UNCHANGED <<state, message_history, triggered_workflows>>]_vars

\* C8 amended: once isActive is false it stays false, the session keeps its
\* id, and what is written afterwards is only added: the history and the
\* triggered-workflow log grow at the end and messageCount does not decrease.
C8_AppendOnlyAfterEnd ==
    [][Inactive =>
        /\ state' # NoState
        /\ ~state'.is_active
        /\ state'.session_id = state.session_id
        /\ state'.message_count >= state.message_count
        /\ IsPrefix(message_history, message_history')
        /\ IsPrefix(triggered_workflows, triggered_workflows')]_vars

\* a message was received, recorded and timestamped after isActive became false
C8_Witness ==
    /\ Inactive
    /\ ended_at >= 0
    /\ Len(message_history) > ended_at
    /\ state.last_activity = Last(message_history).timestamp

C10_ReceiveAlwaysCounts ==
    /\ Len(message_history) = n_messages
    /\ Len(dequeued) + Len(ai_processing_queue) = n_messages
    /\ HasState =>
        /\ state.message_count = Get(initial_state, "messageCount", 0) + n_messages
        /\ (n_messages > 0 => state.last_activity = Last(message_history).timestamp)

\* C11: when the session is active, the queue is empty and the 24 hour wait
\* expires, run ends in a status that is not a failure: the step from the
\* expired wait to the end of run does not return the "failed" summary.
C11_IdleTimeoutNotFailure ==
    [][(s_pc = "waiting" /\ ~WaitCondition /\ s_pc' = "done" /\ handlers' = handlers) =>
        s_result'[1] # "failed"]_vars

\* C12: the processing of every dequeued message returns from the
\* acknowledgment step: no _process_ai_message call returns without
\* generate_ai_response having been awaited.
C12_AckAfterEveryMessage == [][completed' = completed + 1 => s_pc = "ack"]_vars

\* C15: a trigger_workflow signal with a document-added or document-uploaded
\* event starts the document-ingestion pipeline with the id and the user of
\* the session as context, one with any other type starts the generic child;
\* the triggered-workflow log only grows at its end, and what is added is the
\* id of a child that has just returned.
C15_SpawnAndLog ==
    [][/\ (n_triggers' # n_triggers /\ Len(handlers') > Len(handlers)) =>
            LET c == Last(handlers') IN
            IF c.workflow_id[2] \in {"document-added", "document-uploaded"}
            THEN /\ c.workflow = "DocumentProcessingWorkflow"
                 /\ c.args.additional_context.chatId = Get(initial_state, "sessionId", None)
                 /\ c.args.additional_context.userId =
                        IF HasState THEN state.user_id
                        ELSE Get(initial_state, "userId", None)
            ELSE c.workflow = "GenericWorkflow"
       /\ IsPrefix(triggered_workflows, triggered_workflows')
       /\ (triggered_workflows' # triggered_workflows =>
            /\ Len(triggered_workflows') = Len(triggered_workflows) + 1
            /\ \/ (child # NoChild /\ child' = NoChild
                        /\ Last(triggered_workflows') = child.workflow_id)
               \/ \E i \in DOMAIN handlers :
                        /\ handlers' = RemoveAt(handlers, i)
                        /\ Last(triggered_workflows') = handlers[i].workflow_id)]_vars

\* C16: when the child started by a trigger_workflow signal fails, the
\* session goes on: run does not end in that step, and isActive and the
\* triggered-workflow log are unchanged.
C16_FailedSpawnKeepsSession ==
    [][(Len(handlers') < Len(handlers) /\ triggered_workflows' = triggered_workflows) =>
        /\ s_pc' = s_pc
        /\ s_pc' # "done"
        /\ state' = state]_vars

\* C17: in every state of an initialised session check_rate_limit reports
\* limit 3 for a guest, limited exactly when messageCount is at least 3, and
\* not limited with limit -1 for an authenticated user at any messageCount.
C17_RateLimit ==
    HasState =>
        /\ state.user_type = "guest" =>
            /\ check_rate_limit.limit = 3
            /\ check_rate_limit.limited <=> state.message_count >= 3
        /\ state.user_type = "authenticated" =>
            /\ ~check_rate_limit.limited
            /\ check_rate_limit.limit = -1
        /\ check_rate_limit.messageCount = state.message_count

\* a session started as a guest with two messages has received a third one
\* and update_user has made the user authenticated: no longer limited
C17_Witness ==
    /\ HasState
    /\ Get(initial_state, "userType", "guest") = "guest"
    /\ state.user_type = "authenticated"
    /\ state.message_count = 3
    /\ n_updates = 1
    /\ ~check_rate_limit.limited

\* C18: a message received without a client id (the fallback id has three
\* parts, a client id one) gets the id sessionId-msg-{count+1}, count being
\* messageCount of the session before this message.
C18_FallbackIdFromCount ==
    [][(n_messages' # n_messages /\ Len(Last(message_history').message_id) = 3) =>
        /\ HasState
        /\ Last(message_history').message_id =
                <<state.session_id, "msg", state.message_count + 1>>]_vars

\* C19: in every step messageCount does not decrease and the message
\* history of the next state is the history of this state with zero or more
\* messages added at the end.
C19_MonotoneHistory ==
    [][/\ IsPrefix(message_history, message_history')
       /\ (HasState => /\ state' # NoState
                       /\ state'.message_count >= state.message_count)]_vars

\* a session started with messageCount 2 has received two different messages
C19_Witness ==
    /\ HasState
    /\ Len(message_history) = 2
    /\ message_history[1] # message_history[2]
    /\ state.message_count = 4

(***************************************************************************)
(* Properties of _process_ai_message (checked under SpecProcess)           *)
(***************************************************************************)

\* the categories the classification found in the message being processed
Matched ==
    LET detected == analyze_message_for_workflows(message.content).detectedWorkflows IN
    { detected[i].type : i \in DOMAIN detected }

\* the analysis activity returns its result in this step
AnalysisReturned == s_pc = "analysis" /\ s_pc' \in {"child", "ack"}

\* C13: when the classification of the dequeued message matched document,
\* data or automation, a child is dispatched, and when it matched document
\* the child is the document-ingestion pipeline, started for a
\* document-added event.
C13_DispatchByCategory ==
    [][AnalysisReturned =>
        /\ (Matched \cap {"document", "data", "automation"} # {} => child' # NoChild)
        /\ ("document" \in Matched =>
                /\ child' # NoChild
                /\ child'.workflow = "DocumentProcessingWorkflow"
                /\ child'.args.event_type = "document-added")]_vars

\* C14: the classification finds no category other than document, data,
\* automation and search, and for a message with a "?" it finds search, with
\* confidence 0.9, so that the search sub-pipeline is spawned.
C14_QuestionIsSearch ==
    [][AnalysisReturned =>
        LET analysis_result == analyze_message_for_workflows(message.content) IN
        /\ Matched \subseteq {"document", "data", "automation", "search"}
        /\ ((\E i \in DOMAIN message.content : message.content[i] = "?") =>
                /\ "search" \in Matched
                /\ analysis_result.confidence = "0.9"
                /\ child' # NoChild
                /\ child'.kind = "search")]_vars

(***************************************************************************)
(* Properties of the queries (checked under SpecQueries)                   *)
(***************************************************************************)

\* C20: no query changes the session record, the history, the queue or the
\* triggered-workflow log, and neither does a caller that modifies the list
\* get_triggered_workflows returned.
C20_QueriesReadOnly ==
    [][UNCHANGED <<state, message_history, ai_processing_queue,
                   triggered_workflows>>]_vars

\* the caller has appended to the list returned for a log of two entries,
\* and the log still has its two entries
C20_Witness ==
    /\ returned.query = "get_triggered_workflows"
    /\ Len(triggered_workflows) = 2
    /\ Len(returned.value) = 3
    /\ SubSeq(returned.value, 1, 2) = triggered_workflows

Occurrences(list, x) == Cardinality({ i \in DOMAIN list : list[i] = x })

\* the rules an event that is a mapping can violate; a source of None counts
\* as a source that is not present
KeyMissing(d) == "eventType" \notin DOMAIN d
NotAString(d) == "eventType" \in DOMAIN d /\ d["eventType"].type # "str"
EmptyEventType(d) ==
    /\ "eventType" \in DOMAIN d
    /\ d["eventType"].type = "str"
    /\ Strip(d["eventType"].str) = ""
SourceNotAString(d) ==
    "source" \in DOMAIN d /\ d["source"].type \notin {"str", "NoneType"}

\* C27: for an event that is a mapping validate_event reports, in one pass,
\* the error of every violated rule exactly once (a missing eventType key, an
\* eventType that is no string, an eventType empty after trimming, a source
\* that is no string), reports no rule twice and reports nothing when no rule
\* is violated; for an input that is no mapping it reports the single error
\* "Event must be a dictionary".
C27_AllViolationsReported ==
    r_pc = "validate_event" =>
        IF event.type # "dict"
        THEN validation.errors = <<"Event must be a dictionary">>
        ELSE LET d == event.dict
                 errors == validation.errors
             IN /\ KeyMissing(d) =>
                     Occurrences(errors, "Event must contain 'eventType' field") = 1
                /\ NotAString(d) =>
                     Occurrences(errors, "eventType must be a string") = 1
                /\ EmptyEventType(d) =>
                     Occurrences(errors, "'eventType' must be a non-empty string") = 1
                /\ SourceNotAString(d) =>
                     Occurrences(errors, "'source' field must be a string if present") = 1
                /\ \A i, j \in DOMAIN errors : errors[i] = errors[j] => i = j
                /\ errors = <<>> <=>
                     ~(KeyMissing(d) \/ NotAString(d) \/ EmptyEventType(d)
                          \/ SourceNotAString(d))

\* an event violating two rules at once has been validated, and so has an
\* input that is no mapping
C27_Witness ==
    /\ r_pc = "validate_event"
    /\ event.type = "dict"
    /\ EmptyEventType(event.dict)
    /\ SourceNotAString(event.dict)
    /\ Len(validation.errors) = 2

\* C28: validate_event returns a normalized event exactly when it reports no
\* error; the normalized event has a non-empty eventType and a source that
\* both carry no leading or trailing whitespace, and every other field of the
\* input with its value; the input is never modified.
C28_Normalized ==
    /\ [](r_pc = "validate_event" =>
            /\ (validation.normalized_event # PyNone) <=> (validation.errors = <<>>)
            /\ validation.is_valid <=> (validation.errors = <<>>)
            /\ validation.errors = <<>> =>
                 LET n == validation.normalized_event.dict
                     d == event.dict
                 IN /\ n["eventType"].type = "str"
                    /\ n["eventType"].str # ""
                    /\ Strip(n["eventType"].str) = n["eventType"].str
                    /\ n["source"].type = "str"
                    /\ Strip(n["source"].str) = n["source"].str
                    /\ "source" \in DOMAIN d /\ d["source"].type = "str"
                         => n["source"].str = Strip(d["source"].str)
                    /\ n["eventType"].str = Strip(d["eventType"].str)
                    /\ \A k \in DOMAIN d \ {"eventType", "source"} :
                         k \in DOMAIN n /\ n[k] = d[k]
                    /\ DOMAIN n = DOMAIN d \cup {"eventType", "source"})
    /\ [][event' = event]_vars

\* an event with whitespace around its eventType and its source and with one
\* more field has been normalized
C28_Witness ==
    /\ r_pc = "validate_event"
    /\ event.type = "dict"
    /\ DOMAIN event.dict = {"eventType", "source", "documentUri"}
    /\ event.dict["eventType"] = PyStr(" test-event ")
    /\ event.dict["source"] = PyStr(" s3 ")
    /\ validation.is_valid

(***************************************************************************)
(* Properties of routing                                                   *)
(***************************************************************************)

\* the routing service has been called
Routed == r_pc \in {"process_event_for_routing", "route_event"} /\ routing_result # NoResult

\* the event the routing service was called with
RoutedEvent ==
    IF r_pc = "route_event" THEN event.dict ELSE validation.normalized_event.dict

\* the routing table the routing service used
RoutingTable ==
    IF custom_config # NoConfig THEN custom_config
    ELSE IF r_pc = "route_event" /\ default_config = NoConfig THEN DEFAULT_ROUTING_CONFIG
    ELSE default_config

\* eventType and source are strings where present
StringFields(ev) ==
    /\ "eventType" \in DOMAIN ev => ev["eventType"].type = "str"
    /\ "source" \in DOMAIN ev => ev["source"].type = "str"

LoweredEventType(ev) == IF "eventType" \in DOMAIN ev THEN Lower(ev["eventType"].str) ELSE ""
LoweredSource(ev) == IF "source" \in DOMAIN ev THEN Lower(ev["source"].str) ELSE ""

\* the lower-cased eventType is a key of the eventType mappings
TypeRule(table, ev) ==
    LoweredEventType(ev) # "" /\ LoweredEventType(ev) \in DOMAIN table.event_type_mappings

\* the lower-cased source is a key of the source mappings
SourceRule(table, ev) ==
    LoweredSource(ev) # "" /\ LoweredSource(ev) \in DOMAIN table.source_mappings

\* the workflow name of the highest-priority matching rule, None without one
ChosenName(table, ev) ==
    IF TypeRule(table, ev) THEN table.event_type_mappings[LoweredEventType(ev)]
    ELSE IF SourceRule(table, ev) THEN table.source_mappings[LoweredSource(ev)]
    ELSE table.default_workflow

\* the name is registered and enabled
Available(table, name) ==
    name \in DOMAIN table.workflows /\ table.workflows[name].enabled

\* C22: when the lower-cased eventType is a key of the eventType mappings and
\* the lower-cased source is a key of the source mappings, and the two name
\* different enabled workflows, routing returns the workflow of the eventType
\* mapping with confidence 1.0.
C22_EventTypeWins ==
    (/\ Routed
     /\ RoutingTable # NoConfig
     /\ StringFields(RoutedEvent)
     /\ TypeRule(RoutingTable, RoutedEvent)
     /\ SourceRule(RoutingTable, RoutedEvent)) =>
        LET by_type == RoutingTable.event_type_mappings[LoweredEventType(RoutedEvent)]
            by_source == RoutingTable.source_mappings[LoweredSource(RoutedEvent)]
        IN (/\ by_type # by_source
            /\ Available(RoutingTable, by_type)
            /\ Available(RoutingTable, by_source)) =>
               /\ routing_result.kind = "return"
               /\ routing_result.value.workflow_config = RoutingTable.workflows[by_type]
               /\ routing_result.value.confidence = "1.0"

\* an event matching both mappings, which name two enabled workflows, has
\* been routed
C22_Witness ==
    /\ Routed
    /\ RoutingTable # NoConfig
    /\ StringFields(RoutedEvent)
    /\ TypeRule(RoutingTable, RoutedEvent)
    /\ SourceRule(RoutingTable, RoutedEvent)
    /\ ChosenName(RoutingTable, RoutedEvent) = "wf_a"
    /\ Available(RoutingTable, "wf_a")
    /\ Available(RoutingTable, "wf_b")
    /\ RoutingTable.source_mappings[LoweredSource(RoutedEvent)] = "wf_b"
    /\ routing_result.value.workflow_config.workflow_name = "wf_a"

\* C23: when the highest-priority matching rule names a workflow that is not
\* registered or not enabled, routing returns no workflow with confidence 0.0
\* and the reason "No workflow found", exactly the result of an event no rule
\* matches, whatever the lower-priority rules name.
C23_FailClosed ==
    (/\ Routed
     /\ RoutingTable # NoConfig
     /\ StringFields(RoutedEvent)
     /\ \/ ChosenName(RoutingTable, RoutedEvent) \in {None, ""}
        \/ ~Available(RoutingTable, ChosenName(RoutingTable, RoutedEvent))) =>
        routing_result =
            Returned(RoutingResult(NoWorkflowConfig,
                        <<"No workflow found for eventType", LoweredEventType(RoutedEvent),
                          "and source", LoweredSource(RoutedEvent)>>,
                        "0.0"))

\* the eventType mapping names a disabled workflow while the source mapping
\* and the default name an enabled one, and no workflow was returned
C23_Witness ==
    /\ Routed
    /\ RoutingTable # NoConfig
    /\ StringFields(RoutedEvent)
    /\ TypeRule(RoutingTable, RoutedEvent)
    /\ SourceRule(RoutingTable, RoutedEvent)
    /\ ChosenName(RoutingTable, RoutedEvent) = "wf_a"
    /\ "wf_a" \in DOMAIN RoutingTable.workflows
    /\ ~RoutingTable.workflows["wf_a"].enabled
    /\ Available(RoutingTable, "wf_b")
    /\ RoutingTable.default_workflow = "wf_b"
    /\ routing_result.value.workflow_config = NoWorkflowConfig

\* C24: the confidence and the reason of a returned RoutingResult identify the
\* rule that selected the workflow: 1.0 and "Routed by eventType" exactly when
\* the eventType mapping selected it, 0.8 and "Routed by source" exactly when
\* the source mapping did, 0.5 exactly when the default did, 0.0 and "No
\* workflow found" exactly when no workflow is returned, and no other value.
C24_ConfidenceIdentifiesRule ==
    (Routed /\ routing_result.kind = "return") =>
        LET result == routing_result.value
            selected == result.workflow_config # NoWorkflowConfig
            by_type == selected /\ TypeRule(RoutingTable, RoutedEvent)
            by_source == selected /\ ~by_type /\ SourceRule(RoutingTable, RoutedEvent)
            by_default == selected /\ ~by_type /\ ~by_source
        IN /\ result.confidence \in {"1.0", "0.8", "0.5", "0.0"}
           /\ result.confidence = "1.0" <=> by_type
           /\ result.confidence = "0.8" <=> by_source
           /\ result.confidence = "0.5" <=> by_default
           /\ result.confidence = "0.0" <=> ~selected
           /\ by_type => result.routing_decision[1] = "Routed by eventType"
           /\ by_source => result.routing_decision[1] = "Routed by source"
           /\ ~selected => result.routing_decision[1] = "No workflow found for eventType"

\* C25: with the default routing configuration the route_event activity
\* routes an event of eventType 'incident' to incident_workflow on task queue
\* incident_workflow-queue, and an event matching no mapping to the default
\* workflow incident_workflow.
C25_IncidentRouting ==
    (/\ r_pc = "route_event"
     /\ default_config = NoConfig
     /\ custom_config = NoConfig
     /\ event.type = "dict"
     /\ StringFields(event.dict)) =>
        /\ LoweredEventType(event.dict) = "incident" =>
              /\ activity_result.kind = "return"
              /\ activity_result.value.workflow_name = "incident_workflow"
              /\ activity_result.value.task_queue = "incident_workflow-queue"
        /\ (~TypeRule(DEFAULT_ROUTING_CONFIG, event.dict)
              /\ ~SourceRule(DEFAULT_ROUTING_CONFIG, event.dict)) =>
              /\ activity_result.kind = "return"
              /\ activity_result.value.workflow_name = "incident_workflow"

\* C26: the route_event activity answers an event no rule matches and an event
\* whose highest-priority matching rule names a workflow that is not
\* registered or not enabled with the same non-retryable error "No workflow
\* configured to handle event type ... from source ...", and returns no
\* routing result.
C26_SameOutwardError ==
    (/\ r_pc = "route_event"
     /\ event.type = "dict"
     /\ LET table == RoutingTable
            ev == event.dict
            by_type == /\ "eventType" \in DOMAIN ev
                       /\ ev["eventType"].type = "str"
                       /\ Lower(ev["eventType"].str) \in DOMAIN table.event_type_mappings
            by_source == /\ "source" \in DOMAIN ev
                         /\ ev["source"].type = "str"
                         /\ Lower(ev["source"].str) \in DOMAIN table.source_mappings
            name == IF by_type THEN table.event_type_mappings[Lower(ev["eventType"].str)]
                    ELSE IF by_source THEN table.source_mappings[Lower(ev["source"].str)]
                    ELSE table.default_workflow
        IN name = None \/ ~Available(table, name)) =>
        /\ activity_result.kind = "raise"
        /\ activity_result.type = "ApplicationError"
        /\ activity_result.non_retryable
        /\ activity_result.msg =
              "No workflow configured to handle event type ... from source ..."

(***************************************************************************)
(* Properties of chunk_text                                                *)
(***************************************************************************)

\* C29: chunk_text returns after finitely many iterations, whatever the text,
\* chunk_size and chunk_overlap, chunk_overlap >= chunk_size included.
C29_Terminates == <>(c_pc = "done")

\* offset and characters of chunk i (counted from 0) of a sliding window
Offset(i) ==
    i * (chunk_input.input_data.chunk_size - chunk_input.input_data.chunk_overlap)
Positions(i) ==
    { p \in 1..Len(chunk_input.text_result.text) :
        Offset(i) < p /\ p <= Offset(i) + chunk_input.input_data.chunk_size }

\* chunk_text returned the chunks of a text
Chunked ==
    /\ c_pc = "done"
    /\ chunk_output.success

\* C30: for 0 <= chunk_overlap < chunk_size and a non-empty text, chunk i is
\* the text from offset i * (chunk_size - chunk_overlap) for up to chunk_size
\* characters; every character lies in a chunk; consecutive chunks share
\* exactly chunk_overlap characters, fewer only when the last chunk is cut by
\* the end of the text; the first chunk that reaches the end of the text is
\* the last; and metadata record i has chunk_index i and the length of chunk i
\* as chunk_size.
C30_SlidingWindow ==
    (/\ Chunked
     /\ chunk_input.input_data.chunk_overlap < chunk_input.input_data.chunk_size
     /\ chunk_input.text_result.text # <<>>) =>
        LET text == chunk_input.text_result.text
            chunk_size == chunk_input.input_data.chunk_size
            chunk_overlap == chunk_input.input_data.chunk_overlap
            cs == chunk_output.chunks
            md == chunk_output.chunk_metadata
            n == Len(cs)
        IN /\ n >= 1
           /\ \A i \in 0..(n - 1) :
                 cs[i + 1] = [k \in 1..Cardinality(Positions(i)) |-> text[Offset(i) + k]]
           /\ \A p \in 1..Len(text) : \E i \in 0..(n - 1) : p \in Positions(i)
           /\ \A i \in 0..(n - 2) :
                 LET shared == Cardinality(Positions(i) \cap Positions(i + 1)) IN
                 \/ shared = chunk_overlap
                 \/ /\ i + 1 = n - 1
                    /\ Len(cs[n]) < chunk_size
                    /\ shared < chunk_overlap
           /\ \A i \in 0..(n - 1) :
                 (Offset(i) + chunk_size >= Len(text)) <=> (i = n - 1)
           /\ Len(md) = n
           /\ \A i \in 0..(n - 1) :
                 /\ md[i + 1].chunk_index = i
                 /\ md[i + 1].chunk_size = Len(cs[i + 1])

\* a text of 25 characters was chunked with chunk_size 10 and chunk_overlap 2
\* into three chunks, at offsets 0, 8 and 16
C30_Witness ==
    /\ Chunked
    /\ Len(chunk_input.text_result.text) = 25
    /\ chunk_input.input_data.chunk_size = 10
    /\ chunk_input.input_data.chunk_overlap = 2
    /\ Len(chunk_output.chunks) = 3
    /\ chunk_output.chunks[2][1] = 9
    /\ chunk_output.chunks[3][1] = 17
    /\ Len(chunk_output.chunks[3]) = 9

(***************************************************************************)
(* Properties of the child ids of a session                                *)
(***************************************************************************)

\* C39: the child ids of a session are unique: the log of triggered workflows
\* never holds an identifier twice, and no two children started by
\* trigger_workflow, pending or logged, carry the same id.
C39_UniqueChildIds ==
    /\ \A i, j \in DOMAIN triggered_workflows :
          triggered_workflows[i] = triggered_workflows[j] => i = j
    /\ \A i, j \in DOMAIN handlers :
          handlers[i].workflow_id = handlers[j].workflow_id => i = j
    /\ \A i \in DOMAIN handlers, j \in DOMAIN triggered_workflows :
          handlers[i].workflow_id # triggered_workflows[j]

(***************************************************************************)
(* Properties of the session loop                                          *)
(***************************************************************************)

\* the idle wait returned: the loop goes on with a message or ends normally
WaitReturned ==
    /\ s_pc = "waiting"
    /\ \/ s_pc' = "analysis"
       \/ s_pc' = "done" /\ s_result'[1] = "completed"

\* C36: no message enqueued while the session is active stays unprocessed for
\* ever, in whatever position of the loop it arrived, unless end_session
\* arrives, and no idle wait whose condition holds stays pending: again and
\* again every message received so far has been dequeued and processed and
\* the loop is not in a wait it should leave; the idle wait returns only when
\* the session is no longer active or the queue is non-empty.
C36_NoLostWakeup ==
    /\ []<>(/\ ~Active \/ end_signalled \/ completed = Len(message_history)
            /\ ~(s_pc = "waiting" /\ WaitCondition))
    /\ [][WaitReturned => WaitCondition]_loop

\* a message arrived during the idle wait that followed another message
C36_Witness ==
    /\ s_pc = "waiting"
    /\ Active
    /\ completed >= 1
    /\ ai_processing_queue # <<>>
    /\ ~end_signalled

(***************************************************************************)
(* Properties of RootOrchestratorWorkflow (checked under SpecRoot)         *)
(***************************************************************************)

IsActivityCall(c, name) == "activity" \in DOMAIN c /\ c.activity = name
IsChildCall(c) == "child_workflow" \in DOMAIN c
ChildStarted == \E i \in DOMAIN o_calls : IsChildCall(o_calls[i])
RootFailed ==
    o_result[1] \in {"RootOrchestrator failed",
                     "RootOrchestrator failed with unexpected error"}
RootCompleted == o_result[1] = "RootOrchestrator completed. Child workflow result"

\* the payload run works on came from its input or from a trigger signal
PayloadPresent ==
    /\ event_payload # PyNone
    /\ event_payload \in {root_input.event_payload} \cup TriggerPayloads

\* nothing is called before a payload is there; the first call validates it
NothingBeforePayload ==
    /\ o_pc \in {"not_started", "waiting"} => o_calls = <<>> /\ o_result = NoReturnYet
    /\ o_calls # <<>> =>
          PayloadPresent /\ o_calls[1] = ValidateEventCall(event_payload)

\* route_event is the second call, for the payload validate_event found valid
RouteAfterValid ==
    \A i \in DOMAIN o_calls :
        IsActivityCall(o_calls[i], "route_event") =>
            /\ i = 2
            /\ o_calls[i].event = event_payload
            /\ event_payload.type = "dict"
            /\ EventValidationResult(event_payload).is_valid

\* a child is the third call, after route_event returned a workflow
ChildAfterRouted ==
    \A i \in DOMAIN o_calls :
        IsChildCall(o_calls[i]) =>
            /\ i = 3
            /\ IsActivityCall(o_calls[2], "route_event")
            /\ RouteEventActivity(o_calls[2]).kind = "return"
            /\ RouteEventActivity(o_calls[2]).value.routed

\* run ends by returning one of its three strings
ReturnsAString == o_pc = "done" <=> (RootFailed \/ RootCompleted)

\* the statement of C37 as it is worded: a run that returned 'RootOrchestrator
\* failed', whatever the exception, started no child
C37_FailedNeverStartedChild ==
    /\ NothingBeforePayload /\ RouteAfterValid /\ ChildAfterRouted /\ ReturnsAString
    /\ RootFailed => ~ChildStarted

\* C37: the root orchestrator keeps the order validate, route, launch: nothing
\* is called before an event payload is present (from the input or a trigger
\* signal), route_event is called only for a payload validate_event reported
\* valid, a child is started only after route_event returned a workflow, and
\* run ends by returning: 'RootOrchestrator failed' without any child when the
\* validation or the routing failed, and 'RootOrchestrator failed' also when
\* the child it started failed.
C37_ValidateRouteLaunch ==
    /\ NothingBeforePayload /\ RouteAfterValid /\ ChildAfterRouted /\ ReturnsAString
    /\ (RootFailed /\ Len(o_calls) < 3) => ~ChildStarted
    /\ (RootFailed /\ ChildStarted) =>
          o_result = FailedUnexpected("Child Workflow execution failed")

\* the routing failed for a valid event from a trigger signal: run returned
\* the failure after two calls
C37_Witness ==
    /\ o_pc = "done" /\ RootFailed /\ Len(o_calls) = 2
    /\ root_input.event_payload = PyNone
    /\ RouteEventActivity(o_calls[2]).kind = "raise"

\* the workflow a route_event outcome selects
Selected(outcome) ==
    IF outcome.kind = "return" THEN outcome.value.workflow_name ELSE "no workflow"

\* the parameters of route_event with the event in its normalized form
NormalizedParams(routing_params) ==
    [routing_params EXCEPT !.event = PyDict(NormalizedEvent(routing_params.event.dict))]

\* C38: once route_event is called for a validated event, the workflow it
\* selects is the one the routing gives for the normalized form of the event.
C38_RoutesNormalizedForm ==
    (Len(o_calls) >= 2 /\ o_calls[2].routing_config # InvalidConfiguration) =>
        Selected(RouteEventActivity(o_calls[2]))
            = Selected(RouteEventActivity(NormalizedParams(o_calls[2])))

\* C35: a run that routed its event to document_processing_workflow started
\* the DocumentProcessingWorkflow as a child and returned that child's result.
C35_RunsPipeline ==
    (RootCompleted /\ o_result[2] = "document_processing_workflow") =>
        \E i \in DOMAIN o_calls :
            /\ IsChildCall(o_calls[i])
            /\ o_calls[i].child_workflow = "DocumentProcessingWorkflow"

(***************************************************************************)
(* Properties of choose_workflow (checked under SpecChoose)                *)
(***************************************************************************)

\* the event types of the model that equal 'incident' when case is ignored
IncidentIgnoringCase == {"incident", "Incident", "INCIDENT"}

\* C34: choose_workflow returns incident_workflow exactly when the event type
\* equals 'incident' ignoring case and incident_workflow is among the
\* available workflows; in every other case it raises the non-retryable
\* 'No available workflow for this event type.' error and returns nothing.
C34_IncidentOnly ==
    chosen # NoResult =>
        IF /\ choose_params.event_type \in IncidentIgnoringCase
           /\ "incident_workflow" \in choose_params.available_workflows
        THEN chosen = [kind |-> "return", value |-> [workflow_name |-> "incident_workflow"]]
        ELSE /\ chosen.kind = "raise"
             /\ chosen.type = "ApplicationError"
             /\ chosen.msg = "No available workflow for this event type."
             /\ chosen.non_retryable

\* the upper-case event type was given with incident_workflow available
C34_Witness ==
    /\ chosen # NoResult /\ chosen.kind = "return"
    /\ choose_params.event_type = "INCIDENT"
    /\ choose_params.available_workflows = {"incident_workflow", "other_workflow"}

(***************************************************************************)
(* Properties of validate_document (checked under SpecDocument)            *)
(***************************************************************************)

\* the request names its URI, its source and its event type
NamesItsFields ==
    /\ document_request.document_uri # ""
    /\ document_request.source # ""
    /\ document_request.event_type # ""

UsesHttp(uri) == urlparse(uri).scheme \in {"http", "https"}

\* the rules of the source that the request violates, by their message; the
\* rule of webhook is the rule of every source other than chat, s3, azure-blob
ViolatedRules(d) ==
    LET parsed == urlparse(d.document_uri) IN
    CASE d.source = "chat" ->
            {m \in {"Chat upload URI must be absolute path"} : ~parsed.isabs}
      [] d.source = "s3" ->
            {m \in {"S3 URI must use s3:// scheme"} : parsed.scheme # "s3"}
            \cup {m \in {"S3 URI must specify bucket"} : parsed.netloc = ""}
            \cup {m \in {"S3 URI must specify key"} : parsed.path \in {"", "/"}}
            \cup {m \in {"bucket is required for S3 source"} : d.bucket = None}
            \cup {m \in {"key is required for S3 source"} : d.key = None}
      [] d.source = "azure-blob" ->
            {m \in {"Azure Blob URI must use https:// scheme"} : parsed.scheme # "https"}
            \cup {m \in {"Azure Blob URI must use blob.core.windows.net domain"} :
                    ~HasBlobDomain(parsed.netloc)}
            \cup {m \in {"container is required for Azure Blob source"} :
                    d.container = None}
            \cup {m \in {"blob_name is required for Azure Blob source"} :
                    d.blob_name = None}
      [] OTHER ->
            {m \in {"Webhook URI must use http:// or https:// scheme"} :
                ~UsesHttp(d.document_uri)}

\* C33: for a request that names its URI, source and event type,
\* validate_document reports exactly the violated rules of the request's
\* source - for webhook and every other source than chat, s3 and azure-blob
\* the http/https rule - and succeeds exactly when there is none.
C33_SourceRules ==
    (document_validation # NoResult /\ NamesItsFields) =>
        /\ { document_validation.errors[i] : i \in DOMAIN document_validation.errors }
              = ViolatedRules(document_request)
        /\ document_validation.success <=> ViolatedRules(document_request) = {}

\* the same for the sources validate_input has a rule set for
KnownSourcesRules ==
    (/\ document_validation # NoResult /\ NamesItsFields
     /\ document_request.source \in {"chat", "s3", "azure-blob", "webhook"}) =>
        /\ { document_validation.errors[i] : i \in DOMAIN document_validation.errors }
              = ViolatedRules(document_request)
        /\ document_validation.success <=> ViolatedRules(document_request) = {}

(***************************************************************************)
(* Properties of the stages in a row (checked under SpecStages)            *)
(***************************************************************************)

ExtractReturned == g_pc # "start"
ChunkReturned == g_pc # "start" /\ c_pc = "done"
EmbedReturned == embedding_output # NoResult
Items(list) == { list[i] : i \in DOMAIN list }

\* C31: a stage called with the failure of the stage before returns a
\* failure of its own with an error and the neutral payload: extract_text
\* with text None, chunk_text with no chunk and no metadata,
\* generate_embeddings with no embedding, store_chunks (for a failed chunk
\* result or a failed embedding result) with no stored id.
C31_NeutralFailures ==
    /\ (ExtractReturned /\ ~extract_input.download_result.success) =>
          /\ ~chunk_input.text_result.success
          /\ chunk_input.text_result.text = None
          /\ chunk_input.text_result.error # None
    /\ (ChunkReturned /\ ~chunk_input.text_result.success) =>
          /\ ~chunk_output.success
          /\ chunk_output.chunks = <<>> /\ chunk_output.chunk_metadata = <<>>
          /\ chunk_output.error # None
    /\ (EmbedReturned /\ ~chunk_output.success) =>
          /\ ~embedding_output.success
          /\ embedding_output.embeddings = <<>>
          /\ embedding_output.error # None
    /\ \A i \in DOMAIN storage_outputs :
          (~storage_input.chunk_result.success
             \/ ~storage_input.embedding_result.success) =>
              /\ ~storage_outputs[i].success
              /\ storage_outputs[i].stored_ids = <<>>
              /\ storage_outputs[i].error # None

\* store_chunks was called with chunks and a failed embedding result, after
\* the three stages before it had succeeded
C31_Witness ==
    /\ storage_outputs # <<>>
    /\ storage_input.chunk_result.success
    /\ storage_input.chunk_result.chunks # <<>>
    /\ ~storage_input.embedding_result.success
    /\ embedding_output.success

\* the calls of store_chunks that succeeded
Stored == { i \in DOMAIN storage_outputs : storage_outputs[i].success }

\* the ids of one call are pairwise distinct, one for each chunk and vector
IdsOfOneCall ==
    \A i \in Stored :
        LET ids == storage_outputs[i].stored_ids IN
        /\ Len(ids) = Len(storage_input.chunk_result.chunks)
        /\ Len(ids) = Len(storage_input.embedding_result.embeddings)
        /\ \A a, b \in DOMAIN ids : ids[a] = ids[b] => a = b

\* two calls with the same argument return the same statistics
SameStatistics ==
    \A i, j \in Stored :
        storage_outputs[i].storage_stats = storage_outputs[j].storage_stats

\* C32: two store_chunks calls with the same chunks and embeddings return
\* the same storage statistics and id lists with no id in common, and the
\* ids of one call are pairwise distinct, one for each chunk and vector.
C32_FreshIds ==
    /\ SameStatistics
    /\ IdsOfOneCall
    /\ \A i, j \in Stored :
          i # j => Items(storage_outputs[i].stored_ids)
                      \cap Items(storage_outputs[j].stored_ids) = {}

\* every stage succeeded and store_chunks was called with their results
FullySuccessful ==
    /\ storage_outputs # <<>>
    /\ storage_input.chunk_result = chunk_output
    /\ storage_input.embedding_result = embedding_output
    /\ chunk_input.text_result.success
    /\ storage_outputs[1].success

\* the counts of processing_summary in the dict run returns
ProcessingCounts(tx, ch, em, st) ==
    [text_length |-> Len(tx.text),
     chunks_created |-> Len(ch.chunks),
     embeddings_generated |-> Len(em.embeddings),
     chunks_stored |-> Len(st.stored_ids)]

\* C40: when every stage succeeded, the counts of the summary agree:
\* chunks_created = embeddings_generated = chunks_stored = number of stored
\* ids = number of chunk metadata records, for every text length.
C40_CountsAgree ==
    FullySuccessful =>
        LET counts == ProcessingCounts(chunk_input.text_result, chunk_output,
                                       embedding_output, storage_outputs[1])
        IN /\ counts.chunks_created = counts.embeddings_generated
           /\ counts.embeddings_generated = counts.chunks_stored
           /\ counts.chunks_stored = Len(chunk_output.chunk_metadata)
           /\ counts.chunks_stored = storage_outputs[1].storage_stats.total_chunks
           /\ counts.text_length = 0 => counts.chunks_created = 0

\* a text of several chunks went through every stage
C40_Witness ==
    /\ FullySuccessful
    /\ Len(chunk_output.chunks) >= 3
    /\ Len(chunk_input.text_result.text) = MaxStageText

\* the empty text went through every stage
EmptyTextStored == FullySuccessful /\ chunk_input.text_result.text = <<>>

====
